---- MODULE Spec2Model ----
(***************************************************************************)
(* Model of the quorum store proof aggregation and shutdown coordination   *)
(* and of the block executor's read proxy of aptos-core:                   *)
(*   consensus/src/quorum_store/proof_coordinator.rs                       *)
(*   consensus/src/quorum_store/quorum_store_coordinator.rs                *)
(*   aptos-move/block-executor/src/view.rs                                 *)
(***************************************************************************)
EXTENDS Integers, Sequences, FiniteSets, TLC

(***************************************************************************)
(* Bounds of the model.                                                    *)
(***************************************************************************)
NumValidators == 4      \* validators of the epoch; peer ids are 1..NumValidators
NumDigests == 2         \* distinct batch digests
MaxTime == 2            \* the clock runs over 0..MaxTime (milliseconds)
MaxBatches == 2         \* proof states created (init_proof calls) in a run
ProofTimeout == 1       \* proof_timeout_ms handed to ProofCoordinator::new
ChannelCap == 2         \* capacity of the proof coordinator's command channel
MaxSends == 2           \* AppendSignature commands the network sends in a run
NumListeners == 2       \* length of quorum_store_msg_tx_vec
MaxCommits == 2         \* CommitNotification commands sent to the coordinator
MaxLogicalTime == 2     \* logical times carried by commit notifications
NumKeys == 2             \* keys of the state: 1..NumKeys
NumTxns == 2            \* transactions of the block: indices 0..NumTxns-1
MaxIncarnation == 1     \* incarnations run over 0..MaxIncarnation
ByteRadix == 2          \* values a byte takes
U128Bytes == 2          \* bytes of a serialized u128
MaxReads == 2           \* read calls completed before the reads are taken
MaxQueries == 3         \* versioned_map.read calls of one read call
MaxWakeups == 2         \* returns of cvar.wait with the flag still false
NumWorkers == 2         \* worker threads of the block executor
BlockSize == 3          \* transactions of an executed block: indices 0..BlockSize-1

MicrosPerMilli == 1000

None == "None"

PeerIds == 1..NumValidators
Digests == 1..NumDigests

\* ProofCoordinator.peer_id: the local validator.
MyPeerId == 1

\* A batch author other than the local validator.
OtherAuthor == MyPeerId + 1

\* SignedDigestInfo: the digest is a field of the info, so SignedDigest::digest()
\* is info.digest.
SignedDigestInfos == [digest : Digests, batch_author : {MyPeerId, OtherAuthor}]

\* bls12381::Signature of `signer` over `info`.
Sign(signer, info) == [by |-> signer, over |-> info]

\* SignedDigest { signer, info, signature }.
SignedDigests == [signer : PeerIds, info : SignedDigestInfos]

Signature(signed_digest) == Sign(signed_digest.signer, signed_digest.info)

(***************************************************************************)
(* Finite maps (HashMap / BTreeMap) as functions with a varying domain.    *)
(***************************************************************************)
EmptyMap == [x \in {} |-> None]

MapInsert(m, k, v) == [x \in DOMAIN m \cup {k} |-> IF x = k THEN v ELSE m[x]]

MapRemove(m, k) == [x \in DOMAIN m \ {k} |-> m[x]]

\* HashMap::entry(k).or_insert(v)
MapOrInsert(m, k, v) == IF k \in DOMAIN m THEN m ELSE MapInsert(m, k, v)

(***************************************************************************)
(* ValidatorVerifier: every validator has voting power 1; the quorum is    *)
(* two thirds of the total plus one.                                       *)
(***************************************************************************)
QuorumVotingPower == (NumValidators * 2) \div 3 + 1

\* ValidatorVerifier::check_voting_power(authors).is_ok()
CheckVotingPower(authors) ==
    /\ authors \subseteq PeerIds
    /\ Cardinality(authors) >= QuorumVotingPower

(***************************************************************************)
(* Timeouts<HashValue>: a queue of (expiry, digest) in insertion order.    *)
(***************************************************************************)
\* Timeouts::add(value, timeout)
TimeoutsAdd(q, value, timeout, t) == Append(q, <<t + timeout, value>>)

\* Number of leading entries whose expiry has elapsed at time t.
RECURSIVE NumExpired(_, _)
NumExpired(q, t) ==
    IF q # <<>> /\ t >= Head(q)[1] THEN 1 + NumExpired(Tail(q), t) ELSE 0

\* Timeouts::expire(): drains and returns the elapsed prefix.
TimeoutsExpire(q, t) ==
    LET n == NumExpired(q, t)
    IN  [expired |-> [i \in 1..n |-> q[i][2]],
         rest    |-> SubSeq(q, n + 1, Len(q))]

(***************************************************************************)
(* IncrementalProofState                                                   *)
(***************************************************************************)
\* IncrementalProofState::new
NewProofState(info) == [info |-> info, aggregated_signature |-> EmptyMap]

\* Option<T> is a sequence of length at most one.
Some(v) == <<v>>
NoneOpt == <<>>

\* Result<Option<ProofOfStore>, SignedDigestError>, and the panic of an
\* expect() that failed.
Ok(v) == [kind |-> "Ok", err |-> "", value |-> v]
Err(e) == [kind |-> "Err", err |-> e, value |-> NoneOpt]
Panic(msg) == [kind |-> "Panic", err |-> msg, value |-> NoneOpt]

\* IncrementalProofState::add_signature with the duplicate check made before
\* the info check.
MutStateAddSignatureDuplicateFirst(state, signed_digest) ==
    IF signed_digest.signer \in DOMAIN state.aggregated_signature
    THEN Err("DuplicatedSignature")
    ELSE IF signed_digest.info # state.info
    THEN Err("WrongInfo")
    ELSE Ok([state EXCEPT !.aggregated_signature =
                MapInsert(@, signed_digest.signer, Signature(signed_digest))])

\* IncrementalProofState::add_signature: the new state, or the error.
StateAddSignature(state, signed_digest) ==
    IF signed_digest.info # state.info
    THEN Err("WrongInfo")
    ELSE IF signed_digest.signer \in DOMAIN state.aggregated_signature
    THEN Err("DuplicatedSignature")
    ELSE Ok([state EXCEPT !.aggregated_signature =
                MapInsert(@, signed_digest.signer, Signature(signed_digest))])

\* IncrementalProofState::ready without the test for the local peer.
MutReadyIgnoresLocalPeer(state, my_peer_id) ==
    CheckVotingPower(DOMAIN state.aggregated_signature)

\* ready as soon as anybody has signed.
MutReadyOnAnySignature(state, my_peer_id) == DOMAIN state.aggregated_signature # {}

\* IncrementalProofState::ready
Ready(state, my_peer_id) ==
    /\ my_peer_id \in DOMAIN state.aggregated_signature
    /\ CheckVotingPower(DOMAIN state.aggregated_signature)

\* IncrementalProofState::take: ProofOfStore::new(info, aggregated signature).
Take(state) ==
    [info |-> state.info, signers |-> DOMAIN state.aggregated_signature]

(***************************************************************************)
(* ProofCoordinator                                                        *)
(***************************************************************************)
VARIABLES
    digest_to_proof,        \* HashMap<HashValue, IncrementalProofState>
    digest_to_time,         \* HashMap<HashValue, u64>: creation time, microseconds
    timeouts,               \* Timeouts<HashValue>
    now,                    \* the wall clock, milliseconds
    timeout_batches_count,  \* counters::TIMEOUT_BATCHES_COUNT
    broadcast,              \* proofs handed to network_sender, counted per digest
    result                  \* what the last add_signature call returned

aggVars == <<digest_to_proof, digest_to_time, timeouts, now,
             timeout_batches_count, broadcast, result>>

\* The event loop of ProofCoordinator::start and its command channel.
VARIABLES
    pc_rx,                  \* Receiver<ProofCoordinatorCommand>: commands in flight
    pc_loop,                \* "running", or "stopped" after the break
    pc_ack,                 \* the oneshot carried by ProofCoordinatorCommand::Shutdown
    pc_appends_sent,        \* AppendSignature commands enqueued so far
    pc_appends_handled,     \* AppendSignature commands the loop has handled
    pc_shutdown_mark        \* pc_appends_sent when Shutdown was enqueued, if it was

loopVars == <<pc_rx, pc_loop, pc_ack, pc_appends_sent, pc_appends_handled,
              pc_shutdown_mark>>

\* QuorumStoreCoordinator::start, its command channel and the subsystems.
VARIABLES
    qs_rx,                  \* Receiver<CoordinatorCommand>: commands in flight
    qs_closed,              \* every sender of qs_rx has been dropped
    qs_pc,                  \* where QuorumStoreCoordinator::start stands
    qs_cmd,                 \* the command being handled
    qs_nl,                  \* index into quorum_store_msg_tx_vec
    qs_commits,             \* CommitNotification commands enqueued so far
    shutdown_requested,     \* the caller has enqueued CoordinatorCommand::Shutdown
    sent,                   \* what was sent on each subsystem command channel
    bs_ack,                 \* the oneshot handed to the batch store
    nl_ack,                 \* the oneshot handed to each network listener
    caller_ack              \* the oneshot carried by CoordinatorCommand::Shutdown

coordVars == <<qs_rx, qs_closed, qs_pc, qs_cmd, qs_nl, qs_commits,
               shutdown_requested, sent, bs_ack, nl_ack, caller_ack>>

\* LatestView::get_value and MVHashMapView::read of one worker thread.
VARIABLES
    base_view,              \* LatestView::base_view: what get_state_value answers per key
    latest_view,            \* LatestView::latest_view and LatestView::txn_idx
    view_pc,                \* "idle", "query" before versioned_map.read, "waiting" on the cvar
    view_call,              \* the arguments of the get_value call in progress or last made
    captured_reads,         \* MVHashMapView::captured_reads
    completed_reads,        \* read calls that returned since captured_reads was taken
    mvs_queries,            \* versioned_map.read calls made by the current read call
    mvs_outcome,            \* what the last versioned_map.read call answered
    wait_calls,             \* each scheduler.wait_for_dependency call: arguments, result
    dep_resolved,           \* the flag behind the lock of dep_condition
    wakeups,                \* returns of cvar.wait in the current read call
    base_view_reads,        \* the keys of each base_view.get_state_value call
    read_result,            \* what the last MVHashMapView::read returned
    get_value_result        \* what the last LatestView::get_value returned

viewVars == <<base_view, latest_view, view_pc, view_call, captured_reads,
              completed_reads, mvs_queries, mvs_outcome, wait_calls, dep_resolved, wakeups, base_view_reads,
              read_result, get_value_result>>

\* The workers of the block executor, the scheduler and the versioned map.
VARIABLES
    block,                  \* the read and the write of each transaction
    txn_status,             \* Scheduler: status and incarnation of each transaction
    execution_idx,          \* Scheduler::execution_idx
    validation_idx,         \* Scheduler::validation_idx
    versioned_map,          \* MVHashMap: the cell of each key and transaction
    worker,                 \* each worker thread: its task and where it stands in it
    last_reads,             \* the read set of each transaction's last execution
    dependencies,           \* Scheduler: the transactions waiting for each transaction
    dep_flag                \* the flag of each waiting transaction's condition

execVars == <<block, txn_status, execution_idx, validation_idx, versioned_map,
              worker, last_reads, dependencies, dep_flag>>

\* History of the appends to the aggregator.
VARIABLES
    appended                \* the (signer, digest) pairs of the signed digests appended

executorVars == <<viewVars, execVars, appended>>

\* The fields of ProofCoordinator as one record.
Self == [digest_to_proof |-> digest_to_proof,
         digest_to_time  |-> digest_to_time,
         timeouts        |-> timeouts]

\* ProofCoordinator::new
NewProofCoordinator ==
    [digest_to_proof |-> EmptyMap, digest_to_time |-> EmptyMap, timeouts |-> <<>>]

\* init_proof creating the state without recording the creation time.
MutInitProofRecordsNoTime(self, signed_digest, t) ==
    LET digest == signed_digest.info.digest
    IN  [digest_to_proof |-> MapInsert(self.digest_to_proof, digest,
                                       NewProofState(signed_digest.info)),
         digest_to_time  |-> self.digest_to_time,
         timeouts        |-> TimeoutsAdd(self.timeouts, digest, ProofTimeout, t)]

\* ProofCoordinator::init_proof at time t.
InitProof(self, signed_digest, t) ==
    LET digest == signed_digest.info.digest
    IN  [digest_to_proof |-> MapInsert(self.digest_to_proof, digest,
                                       NewProofState(signed_digest.info)),
         digest_to_time  |-> MapOrInsert(self.digest_to_time, digest,
                                         t * MicrosPerMilli),
         timeouts        |-> TimeoutsAdd(self.timeouts, digest, ProofTimeout, t)]

\* add_signature's match with digest_to_time left in place when the proof is
\* taken.
MutAddToEntryKeepsTime(self, signed_digest) ==
    LET digest == signed_digest.info.digest
        added  == StateAddSignature(self.digest_to_proof[digest], signed_digest)
    IN  IF added.kind = "Err"
        THEN [self |-> self, result |-> Err(added.err)]
        ELSE IF Ready(added.value, MyPeerId)
        THEN [self   |-> [self EXCEPT !.digest_to_proof = MapRemove(@, digest)],
              result |-> Ok(Some(Take(added.value)))]
        ELSE [self   |-> [self EXCEPT !.digest_to_proof[digest] = added.value],
              result |-> Ok(NoneOpt)]

\* The match on self.digest_to_proof.entry(digest) of add_signature, entered
\* with the entry occupied.
AddToEntry(self, signed_digest) ==
    LET digest == signed_digest.info.digest
        added  == StateAddSignature(self.digest_to_proof[digest], signed_digest)
    IN  IF added.kind = "Err"
        THEN [self |-> self, result |-> Err(added.err)]
        ELSE IF Ready(added.value, MyPeerId)
        THEN IF digest \in DOMAIN self.digest_to_time
             THEN [self   |-> [self EXCEPT
                                 !.digest_to_proof = MapRemove(@, digest),
                                 !.digest_to_time = MapRemove(@, digest)],
                   result |-> Ok(Some(Take(added.value)))]
             ELSE [self   |-> [self EXCEPT
                                 !.digest_to_proof = MapRemove(@, digest)],
                   result |-> Panic("Batch created without recording the time!")]
        ELSE [self   |-> [self EXCEPT !.digest_to_proof[digest] = added.value],
              result |-> Ok(NoneOpt)]

\* add_signature creating a state whoever the batch author is.
MutAddSignatureAnyAuthor(self, signed_digest, t) ==
    IF signed_digest.info.digest \notin DOMAIN self.digest_to_proof
    THEN AddToEntry(InitProof(self, signed_digest, t), signed_digest)
    ELSE AddToEntry(self, signed_digest)

\* ProofCoordinator::add_signature at time t: the new fields and the result.
AddSignature(self, signed_digest, t) ==
    LET digest == signed_digest.info.digest
    IN  IF digest \notin DOMAIN self.digest_to_proof
        THEN IF signed_digest.info.batch_author = MyPeerId
             THEN AddToEntry(InitProof(self, signed_digest, t), signed_digest)
             ELSE [self |-> self, result |-> Err("WrongInfo")]
        ELSE AddToEntry(self, signed_digest)

\* The digests removed by the loop of ProofCoordinator::expire.
RECURSIVE RemoveAll(_, _)
RemoveAll(m, digests) ==
    IF digests = <<>> THEN m
    ELSE RemoveAll(MapRemove(m, Head(digests)), Tail(digests))

\* expire draining the timeouts and counting them without removing a state.
MutExpireKeepsStates(self, t) ==
    LET e == TimeoutsExpire(self.timeouts, t)
    IN  [self    |-> [self EXCEPT !.timeouts = e.rest],
         counted |-> Len(e.expired)]

\* ProofCoordinator::expire at time t: the new fields and the number of
\* increments of TIMEOUT_BATCHES_COUNT.
Expire(self, t) ==
    LET e == TimeoutsExpire(self.timeouts, t)
    IN  [self    |-> [self EXCEPT
                        !.timeouts = e.rest,
                        !.digest_to_proof = RemoveAll(@, e.expired)],
         counted |-> Len(e.expired)]

\* Every init_proof call queues one timeout and every timeout drained by
\* expire is counted once, so this is the number of init_proof calls so far.
BatchesCreated == Len(timeouts) + timeout_batches_count

\* Would add_signature call init_proof for this input?
CallsInitProof(signed_digest) ==
    /\ signed_digest.info.digest \notin DOMAIN digest_to_proof
    /\ signed_digest.info.batch_author = MyPeerId

\* The AppendSignature branch of ProofCoordinator::start.
HandleAppendSignature(signed_digest) ==
    LET r == AddSignature(Self, signed_digest, now)
    IN  /\ digest_to_proof' = r.self.digest_to_proof
        /\ digest_to_time' = r.self.digest_to_time
        /\ timeouts' = r.self.timeouts
        /\ result' = r.result
        /\ broadcast' =
             IF r.result.kind = "Ok" /\ r.result.value # NoneOpt
             THEN [broadcast EXCEPT ![signed_digest.info.digest] = @ + 1]
             ELSE broadcast
        /\ UNCHANGED <<now, timeout_batches_count>>

\* The interval.tick() branch of ProofCoordinator::start.
HandleTick ==
    LET r == Expire(Self, now)
    IN  /\ digest_to_proof' = r.self.digest_to_proof
        /\ digest_to_time' = r.self.digest_to_time
        /\ timeouts' = r.self.timeouts
        /\ timeout_batches_count' = timeout_batches_count + r.counted
        /\ UNCHANGED <<now, broadcast, result>>

(***************************************************************************)
(* The aggregator alone: appends and ticks arrive in any order.            *)
(***************************************************************************)
AppendSignature(signed_digest) ==
    /\ CallsInitProof(signed_digest) => BatchesCreated < MaxBatches
    /\ HandleAppendSignature(signed_digest)
    /\ UNCHANGED <<loopVars, coordVars, executorVars>>

Tick == HandleTick /\ UNCHANGED <<loopVars, coordVars, executorVars>>

\* Time passes.
AdvanceClock ==
    /\ now < MaxTime
    /\ now' = now + 1
    /\ UNCHANGED <<digest_to_proof, digest_to_time, timeouts,
                   timeout_batches_count, broadcast, result>>
    /\ UNCHANGED <<loopVars, coordVars, executorVars>>

(***************************************************************************)
(* ProofCoordinator::start: the event loop.                                *)
(***************************************************************************)
AppendSignatureCommand(signed_digest) ==
    [type |-> "AppendSignature", signed_digest |-> Some(signed_digest)]

ShutdownCommand == [type |-> "Shutdown", signed_digest |-> NoneOpt]

\* The loop going on after it acknowledged Shutdown.
MutLoopKeepsRunning == "running"

\* The state of the loop once Shutdown has been acknowledged: the break.
LoopAfterShutdown == "stopped"

\* The network hands a signed digest to the proof coordinator.
NetworkSendsSignedDigest(signed_digest) ==
    /\ pc_loop = "running"
    /\ pc_appends_sent < MaxSends
    /\ Len(pc_rx) < ChannelCap
    /\ pc_rx' = Append(pc_rx, AppendSignatureCommand(signed_digest))
    /\ pc_appends_sent' = pc_appends_sent + 1
    /\ UNCHANGED <<pc_loop, pc_ack, pc_appends_handled, pc_shutdown_mark>>
    /\ UNCHANGED <<aggVars, coordVars, executorVars>>

\* The rx.recv() branch of the select: the oldest command is handled.  On
\* Shutdown the loop acknowledges and breaks, which drops the receiver and
\* what it still holds.
ProofCoordinatorRecv ==
    /\ pc_loop = "running"
    /\ pc_rx # <<>>
    /\ LET command == Head(pc_rx)
       IN  IF command.type = "Shutdown"
           THEN /\ pc_ack' = "sent"
                /\ pc_loop' = LoopAfterShutdown
                /\ pc_rx' = <<>>
                /\ UNCHANGED <<pc_appends_sent, pc_appends_handled, pc_shutdown_mark>>
                /\ UNCHANGED aggVars
           ELSE /\ HandleAppendSignature(command.signed_digest[1])
                /\ pc_rx' = Tail(pc_rx)
                /\ pc_appends_handled' = pc_appends_handled + 1
                /\ UNCHANGED <<pc_loop, pc_ack, pc_appends_sent, pc_shutdown_mark>>
    /\ UNCHANGED <<coordVars, executorVars>>

\* The interval.tick() branch of the select.
ProofCoordinatorTick ==
    /\ pc_loop = "running"
    /\ HandleTick
    /\ UNCHANGED <<loopVars, coordVars, executorVars>>

\* self.proof_coordinator_cmd_tx.send(Shutdown(tx)).await with room in the
\* channel: the command is enqueued behind what the channel holds.
EnqueueShutdown ==
    /\ Len(pc_rx) < ChannelCap
    /\ pc_rx' = Append(pc_rx, ShutdownCommand)
    /\ pc_ack' = "pending"
    /\ pc_shutdown_mark' = Some(pc_appends_sent)
    /\ UNCHANGED <<pc_loop, pc_appends_sent, pc_appends_handled>>

(***************************************************************************)
(* QuorumStoreCoordinator::start                                           *)
(***************************************************************************)
Listeners == 1..NumListeners

LogicalTimes == 1..MaxLogicalTime

\* The Vec<HashValue> of a commit notification.
CommitDigestLists == {<<>>} \cup {<<d>> : d \in Digests}

\* The mpsc command channels of the coordinator other than the proof
\* coordinator's.
CommandChannels ==
    {"batch_generator", "batch_coordinator", "proof_manager", "batch_store"}

CommitNotification(time, digests) ==
    [type |-> "CommitNotification", time |-> time, digests |-> digests]

CoordinatorShutdown ==
    [type |-> "Shutdown", time |-> 0, digests |-> <<>>]

NoCommand == [type |-> "None", time |-> 0, digests |-> <<>>]

\* The coordinator has left its loop: the break, a panic, or the end of the
\* command stream.
CoordinatorGone == qs_pc \in {"done", "panicked", "exited"}

\* Consensus notifies the coordinator of a commit.
SendCommitNotification(time, digests) ==
    /\ ~CoordinatorGone
    /\ ~qs_closed
    /\ qs_commits < MaxCommits
    /\ qs_rx' = Append(qs_rx, CommitNotification(time, digests))
    /\ qs_commits' = qs_commits + 1
    /\ UNCHANGED <<qs_closed, qs_pc, qs_cmd, qs_nl, shutdown_requested, sent,
                   bs_ack, nl_ack, caller_ack>>
    /\ UNCHANGED <<aggVars, loopVars, executorVars>>

\* The caller asks the coordinator to shut down.
SendShutdown ==
    /\ ~CoordinatorGone
    /\ ~qs_closed
    /\ ~shutdown_requested
    /\ qs_rx' = Append(qs_rx, CoordinatorShutdown)
    /\ shutdown_requested' = TRUE
    /\ caller_ack' = "pending"
    /\ UNCHANGED <<qs_closed, qs_pc, qs_cmd, qs_nl, qs_commits, sent,
                   bs_ack, nl_ack>>
    /\ UNCHANGED <<aggVars, loopVars, executorVars>>

\* Every sender of the coordinator's channel is dropped.
DropSenders ==
    /\ ~qs_closed
    /\ qs_closed' = TRUE
    /\ UNCHANGED <<qs_rx, qs_pc, qs_cmd, qs_nl, qs_commits, shutdown_requested,
                   sent, bs_ack, nl_ack, caller_ack>>
    /\ UNCHANGED <<aggVars, loopVars, executorVars>>

\* while let Some(cmd) = rx.next().await
CoordinatorRecv ==
    /\ qs_pc = "recv"
    /\ IF qs_rx # <<>>
       THEN /\ qs_cmd' = Head(qs_rx)
            /\ qs_rx' = Tail(qs_rx)
            /\ qs_pc' = IF Head(qs_rx).type = "Shutdown"
                        THEN "send_batch_store" ELSE "send_proof_manager"
       ELSE /\ qs_closed
            /\ qs_pc' = "exited"
            /\ UNCHANGED <<qs_rx, qs_cmd>>
    /\ UNCHANGED <<qs_closed, qs_nl, qs_commits, shutdown_requested, sent,
                   bs_ack, nl_ack, caller_ack>>
    /\ UNCHANGED <<aggVars, loopVars, executorVars>>

\* An expect() or panic!() of the coordinator.
CoordinatorPanics ==
    /\ qs_pc' = "panicked"
    /\ UNCHANGED <<qs_rx, qs_closed, qs_cmd, qs_nl, qs_commits,
                   shutdown_requested, sent, bs_ack, nl_ack, caller_ack>>

\* The commit notification not sent to the proof manager before the batch
\* generator is notified.
MutForwardSkipsProofManager ==
    /\ qs_pc = "send_proof_manager"
    /\ qs_pc' = "send_batch_generator"
    /\ UNCHANGED <<qs_rx, qs_closed, qs_cmd, qs_nl, qs_commits,
                   shutdown_requested, sent, bs_ack, nl_ack, caller_ack>>
    /\ UNCHANGED <<aggVars, loopVars, executorVars>>

\* self.proof_manager_cmd_tx.send(CommitNotification(..)).await.expect(..)
ForwardToProofManager ==
    /\ qs_pc = "send_proof_manager"
    /\ \/ /\ sent' = [sent EXCEPT !["proof_manager"] =
                        Append(@, CommitNotification(qs_cmd.time, qs_cmd.digests))]
          /\ qs_pc' = "send_batch_generator"
          /\ UNCHANGED <<qs_rx, qs_closed, qs_cmd, qs_nl, qs_commits,
                         shutdown_requested, bs_ack, nl_ack, caller_ack>>
       \/ CoordinatorPanics
    /\ UNCHANGED <<aggVars, loopVars, executorVars>>

\* self.batch_generator_cmd_tx.send(CommitNotification(time)).await.expect(..)
ForwardToBatchGenerator ==
    /\ qs_pc = "send_batch_generator"
    /\ \/ /\ sent' = [sent EXCEPT !["batch_generator"] =
                        Append(@, [type |-> "CommitNotification",
                                   time |-> qs_cmd.time])]
          /\ qs_pc' = "recv"
          /\ qs_cmd' = NoCommand
          /\ UNCHANGED <<qs_rx, qs_closed, qs_nl, qs_commits,
                         shutdown_requested, bs_ack, nl_ack, caller_ack>>
       \/ CoordinatorPanics
    /\ UNCHANGED <<aggVars, loopVars, executorVars>>

\* self.batch_store_cmd_tx.send(BatchStoreCommand::Shutdown(tx)).await.expect(..)
ShutdownBatchStore ==
    /\ qs_pc = "send_batch_store"
    /\ \/ /\ sent' = [sent EXCEPT !["batch_store"] = Append(@, [type |-> "Shutdown"])]
          /\ bs_ack' = "pending"
          /\ qs_pc' = "await_batch_store"
          /\ UNCHANGED <<qs_rx, qs_closed, qs_cmd, qs_nl, qs_commits,
                         shutdown_requested, nl_ack, caller_ack>>
       \/ CoordinatorPanics
    /\ UNCHANGED <<aggVars, loopVars, executorVars>>

\* The batch store answers the oneshot, or drops it.
BatchStoreAnswers(answer) ==
    /\ bs_ack = "pending"
    /\ bs_ack' = answer
    /\ UNCHANGED <<qs_rx, qs_closed, qs_pc, qs_cmd, qs_nl, qs_commits,
                   shutdown_requested, sent, nl_ack, caller_ack>>
    /\ UNCHANGED <<aggVars, loopVars, executorVars>>

\* An await that carries on when the oneshot was dropped.
MutAwaitIgnoresDrop(ack, next) == next

\* rx.await.expect(..) on a oneshot that was answered or dropped: where the
\* coordinator stands next.
AwaitOutcome(ack, next) == IF ack = "sent" THEN next ELSE "panicked"

\* The batch store's oneshot not awaited: the coordinator carries on while
\* the acknowledgement is outstanding.
MutAwaitBatchStoreCarriesOn ==
    /\ qs_pc = "await_batch_store"
    /\ qs_pc' = "send_proof_coordinator"
    /\ UNCHANGED <<qs_rx, qs_closed, qs_cmd, qs_nl, qs_commits,
                   shutdown_requested, sent, bs_ack, nl_ack, caller_ack>>
    /\ UNCHANGED <<aggVars, loopVars, executorVars>>

\* batch_store_shutdown_rx.await.expect("Failed to stop BatchStore")
AwaitBatchStore ==
    /\ qs_pc = "await_batch_store"
    /\ bs_ack \in {"sent", "dropped"}
    /\ qs_pc' = AwaitOutcome(bs_ack, "send_proof_coordinator")
    /\ UNCHANGED <<qs_rx, qs_closed, qs_cmd, qs_nl, qs_commits,
                   shutdown_requested, sent, bs_ack, nl_ack, caller_ack>>
    /\ UNCHANGED <<aggVars, loopVars, executorVars>>

\* self.proof_coordinator_cmd_tx.send(Shutdown(tx)).await.expect(..): the send
\* fails once the proof coordinator has dropped its receiver.
ShutdownProofCoordinator ==
    /\ qs_pc = "send_proof_coordinator"
    /\ IF pc_loop = "running"
       THEN /\ EnqueueShutdown
            /\ qs_pc' = "await_proof_coordinator"
       ELSE /\ qs_pc' = "panicked"
            /\ UNCHANGED loopVars
    /\ UNCHANGED <<qs_rx, qs_closed, qs_cmd, qs_nl, qs_commits,
                   shutdown_requested, sent, bs_ack, nl_ack, caller_ack>>
    /\ UNCHANGED <<aggVars, executorVars>>

\* The listener loop left after its first step.
MutAfterListenerSkipsRest(i) == "ack_caller"

\* for network_listener_tx in self.quorum_store_msg_tx_vec: where the
\* coordinator stands once listener i has acknowledged (i = 0: before the
\* first listener).
AfterListener(i) == IF i < NumListeners THEN "push_listener" ELSE "ack_caller"

\* proof_coordinator_shutdown_rx.await.expect("Failed to stop ProofCoordinator")
AwaitProofCoordinator ==
    /\ qs_pc = "await_proof_coordinator"
    /\ pc_ack \in {"sent", "dropped"}
    /\ qs_pc' = AwaitOutcome(pc_ack, AfterListener(0))
    /\ qs_nl' = 1
    /\ UNCHANGED <<qs_rx, qs_closed, qs_cmd, qs_commits,
                   shutdown_requested, sent, bs_ack, nl_ack, caller_ack>>
    /\ UNCHANGED <<aggVars, loopVars, executorVars>>

\* network_listener_tx.push(my_peer_id, VerifiedEvent::Shutdown(tx)): Ok, or
\* the panic on Err.
ShutdownListener ==
    /\ qs_pc = "push_listener"
    /\ \/ /\ nl_ack' = [nl_ack EXCEPT ![qs_nl] = "pending"]
          /\ qs_pc' = "await_listener"
          /\ UNCHANGED <<qs_rx, qs_closed, qs_cmd, qs_nl, qs_commits,
                         shutdown_requested, sent, bs_ack, caller_ack>>
       \/ CoordinatorPanics
    /\ UNCHANGED <<aggVars, loopVars, executorVars>>

\* A network listener answers the oneshot, or drops it.
ListenerAnswers(i, answer) ==
    /\ nl_ack[i] = "pending"
    /\ nl_ack' = [nl_ack EXCEPT ![i] = answer]
    /\ UNCHANGED <<qs_rx, qs_closed, qs_pc, qs_cmd, qs_nl, qs_commits,
                   shutdown_requested, sent, bs_ack, caller_ack>>
    /\ UNCHANGED <<aggVars, loopVars, executorVars>>

\* network_listener_shutdown_rx.await.expect("Failed to stop NetworkListener")
AwaitListener ==
    /\ qs_pc = "await_listener"
    /\ nl_ack[qs_nl] \in {"sent", "dropped"}
    /\ qs_pc' = AwaitOutcome(nl_ack[qs_nl], AfterListener(qs_nl))
    /\ qs_nl' = IF nl_ack[qs_nl] = "sent" /\ qs_nl < NumListeners
                THEN qs_nl + 1 ELSE qs_nl
    /\ UNCHANGED <<qs_rx, qs_closed, qs_cmd, qs_commits,
                   shutdown_requested, sent, bs_ack, nl_ack, caller_ack>>
    /\ UNCHANGED <<aggVars, loopVars, executorVars>>

\* The acknowledgement sent without the break: the loop goes on to the next
\* command.
MutAckCallerWithoutBreak ==
    /\ qs_pc = "ack_caller"
    /\ caller_ack' = "sent"
    /\ qs_pc' = "recv"
    /\ UNCHANGED <<qs_rx, qs_closed, qs_cmd, qs_nl, qs_commits,
                   shutdown_requested, sent, bs_ack, nl_ack>>
    /\ UNCHANGED <<aggVars, loopVars, executorVars>>

\* ack_tx.send(()).expect("Failed to send shutdown ack from QuorumStore"),
\* then the break; the send fails when the caller dropped its receiver.
AckCaller ==
    /\ qs_pc = "ack_caller"
    /\ \/ /\ caller_ack' = "sent"
          /\ qs_pc' = "done"
          /\ UNCHANGED <<qs_rx, qs_closed, qs_cmd, qs_nl, qs_commits,
                         shutdown_requested, sent, bs_ack, nl_ack>>
       \/ CoordinatorPanics
    /\ UNCHANGED <<aggVars, loopVars, executorVars>>

(***************************************************************************)
(* Keys, versions, bytes and integers of the block executor                *)
(***************************************************************************)
Keys == 1..NumKeys
TxnIndices == 0..(NumTxns - 1)
Incarnations == 0..MaxIncarnation
Bytes == 0..(ByteRadix - 1)

\* The largest u128: U128Bytes bytes of ByteRadix values each.
U128Max == ByteRadix ^ U128Bytes - 1
U128s == 0..U128Max

RECURSIVE ToLittleEndian(_, _)
ToLittleEndian(n, len) ==
    IF len = 0 THEN <<>>
    ELSE <<n % ByteRadix>> \o ToLittleEndian(n \div ByteRadix, len - 1)

RECURSIVE FromLittleEndian(_)
FromLittleEndian(bytes) ==
    IF bytes = <<>> THEN 0
    ELSE Head(bytes) + ByteRadix * FromLittleEndian(Tail(bytes))

\* delta_change_set::serialize: the bytes of a u128.
Serialize(n) == ToLittleEndian(n, U128Bytes)

\* delta_change_set::deserialize: the u128 of the bytes; its expect() fails
\* on bytes that are not a u128.
Deserialize(bytes) ==
    IF Len(bytes) = U128Bytes
    THEN Ok(FromLittleEndian(bytes))
    ELSE Panic("unexpected deserialization error in aggregator")

\* The byte strings the base view is populated with: two u128 values and one
\* string that is not a u128.
Blobs == {Serialize(0), Serialize(U128Max - 1), <<1>>}

\* Value of the Move VM: an integer with its type.
U8Value(n) == [type |-> "u8", n |-> n]
U128Value(n) == [type |-> "u128", n |-> n]
NoMoveValue == [type |-> "none", n |-> 0]

\* MoveTypeLayout, and Value::simple_deserialize, which is None on bytes
\* that are no value of the layout.
Layouts == {"u8", "u128"}
Hints == {NoneOpt} \cup {Some(layout) : layout \in Layouts}

SimpleDeserialize(blob, layout) ==
    IF layout = "u8"
    THEN IF Len(blob) = 1 THEN Some(U8Value(blob[1])) ELSE NoneOpt
    ELSE IF Len(blob) = U128Bytes
         THEN Some(U128Value(FromLittleEndian(blob)))
         ELSE NoneOpt

\* CachedData
MoveValue(value) == [tag |-> "MoveValue", value |-> value, blob |-> <<>>]
Serialized(blob) == [tag |-> "Serialized", value |-> NoMoveValue, blob |-> blob]

\* T::ReadValue with Readable::read: a deletion reads as None.
ReadValues == {[cached |-> NoneOpt], [cached |-> Some(Serialized(Serialize(1)))]}
NoReadValue == [cached |-> NoneOpt]
ValueRead(v) == v.cached

\* DeltaOp: an update of a u128 within a limit.
NoDelta == [update |-> "none", value |-> 0, limit |-> 0]
Deltas == [update : {"Plus", "Minus"}, value : {1}, limit : {U128Max - 1, U128Max}]

\* DeltaOp::apply_to: fails on overflow of the limit and on underflow.
ApplyTo(delta, base) ==
    IF delta.update = "Plus"
    THEN IF delta.limit < delta.value \/ base > delta.limit - delta.value
         THEN Err("PartialVMError")
         ELSE Ok(base + delta.value)
    ELSE IF base < delta.value
         THEN Err("PartialVMError")
         ELSE Ok(base - delta.value)

\* TStateView::get_state_value: an error, a miss or the bytes of the key.
BaseViewAnswers ==
    {Err("base view error"), Ok(NoneOpt)} \cup {Ok(Some(blob)) : blob \in Blobs}

\* The base views of a block: states that hold an answer other than a miss
\* for at most one key.
BaseViews ==
    {[key \in Keys |-> IF key = held THEN answer ELSE Ok(NoneOpt)] :
        held \in Keys, answer \in BaseViewAnswers}

(***************************************************************************)
(* MVHashMap::read outcomes, ReadDescriptor and ReadResult                 *)
(***************************************************************************)
MVOutcome(tag, idx, incarnation, v, n, delta) ==
    [tag |-> tag, idx |-> idx, incarnation |-> incarnation, v |-> v, n |-> n,
     delta |-> delta]

\* MVHashMapOutput::Version, MVHashMapOutput::Resolved
MVVersion(idx, incarnation, v) == MVOutcome("Version", idx, incarnation, v, 0, NoDelta)
MVResolved(n) == MVOutcome("Resolved", 0, 0, NoReadValue, n, NoDelta)
\* MVHashMapError::NotFound, Unresolved, Dependency, DeltaApplicationFailure
MVNotFound == MVOutcome("NotFound", 0, 0, NoReadValue, 0, NoDelta)
MVUnresolved(delta) == MVOutcome("Unresolved", 0, 0, NoReadValue, 0, delta)
MVDependency(dep_idx) == MVOutcome("Dependency", dep_idx, 0, NoReadValue, 0, NoDelta)
MVDeltaApplicationFailure ==
    MVOutcome("DeltaApplicationFailure", 0, 0, NoReadValue, 0, NoDelta)

\* What versioned_map.read(key, txn_idx) can answer without a dependency:
\* versions and dependencies lie below txn_idx.
ReturningOutcomes(txn_idx) ==
    {MVVersion(idx, incarnation, v) :
        idx \in {i \in TxnIndices : i < txn_idx},
        incarnation \in Incarnations, v \in ReadValues}
    \cup (IF txn_idx > 0
          THEN {MVResolved(n) : n \in U128s}
               \cup {MVUnresolved(delta) : delta \in Deltas}
               \cup {MVDeltaApplicationFailure}
          ELSE {})
    \cup {MVNotFound}

ReadDescriptor(key, kind, idx, incarnation, n, delta) ==
    [key |-> key, kind |-> kind, idx |-> idx, incarnation |-> incarnation,
     n |-> n, delta |-> delta]

FromVersion(key, idx, incarnation) ==
    ReadDescriptor(key, "Version", idx, incarnation, 0, NoDelta)
FromResolved(key, n) == ReadDescriptor(key, "Resolved", 0, 0, n, NoDelta)
\* The descriptor of a read from storage taken for a read of version (0, 0).
MutFromStorageAsVersion(key) == ReadDescriptor(key, "Version", 0, 0, 0, NoDelta)
FromStorage(key) == ReadDescriptor(key, "Storage", 0, 0, 0, NoDelta)
FromUnresolved(key, delta) == ReadDescriptor(key, "Unresolved", 0, 0, 0, delta)
FromDeltaApplicationFailure(key) ==
    ReadDescriptor(key, "DeltaFailure", 0, 0, 0, NoDelta)

ReadResult(tag, v, n, delta) == [tag |-> tag, v |-> v, n |-> n, delta |-> delta]

ReadResultValue(v) == ReadResult("Value", v, 0, NoDelta)
ReadResultU128(n) == ReadResult("U128", NoReadValue, n, NoDelta)
ReadResultUnresolved(delta) == ReadResult("Unresolved", NoReadValue, 0, delta)
ReadResultNone == ReadResult("None", NoReadValue, 0, NoDelta)

(***************************************************************************)
(* MVHashMapView::read                                                     *)
(***************************************************************************)
\* One turn of the loop on the outcome of versioned_map.read: the reads
\* captured so far with what the turn pushed, and what read returns, None
\* when the loop goes round again.
ReadIteration(captured, key, outcome) ==
    CASE outcome.tag = "Version" ->
            [captured_reads |->
                 Append(captured, FromVersion(key, outcome.idx, outcome.incarnation)),
             returned |-> Some(ReadResultValue(outcome.v))]
      [] outcome.tag = "Resolved" ->
            [captured_reads |-> Append(captured, FromResolved(key, outcome.n)),
             returned |-> Some(ReadResultU128(outcome.n))]
      [] outcome.tag = "NotFound" ->
            [captured_reads |-> Append(captured, FromStorage(key)),
             returned |-> Some(ReadResultNone)]
      [] outcome.tag = "Unresolved" ->
            [captured_reads |-> Append(captured, FromUnresolved(key, outcome.delta)),
             returned |-> Some(ReadResultUnresolved(outcome.delta))]
      [] outcome.tag = "Dependency" ->
            [captured_reads |-> captured, returned |-> NoneOpt]
      [] outcome.tag = "DeltaApplicationFailure" ->
            [captured_reads |-> Append(captured, FromDeltaApplicationFailure(key)),
             returned |-> Some(ReadResultU128(0))]

(***************************************************************************)
(* LatestView::get_value                                                   *)
(***************************************************************************)
\* What get_value returns together with the keys it asked the base view for.
Returns(res, keys) == [result |-> res, base_view_reads |-> keys]

\* The closure of the ReadResult::None arm without a look at the hint.
MutFromBlobIgnoresHint(hint, blob) == Ok(Some(Serialized(blob)))

\* The closure of the ReadResult::None arm on the bytes the base view holds.
MultiVersionFromBlob(hint, blob) ==
    IF hint # NoneOpt
    THEN LET value == SimpleDeserialize(blob, hint[1])
         IN  IF value = NoneOpt
             THEN Panic("should deserialize")
             ELSE Ok(Some(MoveValue(value[1])))
    ELSE Ok(Some(Serialized(blob)))

\* The ReadResult::Unresolved arm with a delta that fails to apply leaving
\* the base as the value.
MutGetValueUnresolvedKeepsBase(delta, key, base) ==
    LET state_value == base[key]
        from_storage ==
            IF state_value.kind = "Err" THEN state_value
            ELSE IF state_value.value = NoneOpt THEN Err("STORAGE_ERROR")
            ELSE Deserialize(state_value.value[1])
        applied ==
            IF from_storage.kind = "Ok"
            THEN LET sum == ApplyTo(delta, from_storage.value)
                 IN  IF sum.kind = "Ok" THEN sum ELSE from_storage
            ELSE from_storage
    IN  Returns(IF applied.kind = "Ok"
                THEN Ok(Some(MoveValue(U128Value(applied.value))))
                ELSE applied,
                <<key>>)

\* The ReadResult::Unresolved arm taking the base 0 on a storage miss.
MutGetValueUnresolvedDefaultsBase(delta, key, base) ==
    LET state_value == base[key]
        from_storage ==
            IF state_value.kind = "Err" THEN state_value
            ELSE IF state_value.value = NoneOpt THEN Ok(0)
            ELSE Deserialize(state_value.value[1])
        applied ==
            IF from_storage.kind = "Ok"
            THEN ApplyTo(delta, from_storage.value)
            ELSE from_storage
    IN  Returns(IF applied.kind = "Ok"
                THEN Ok(Some(MoveValue(U128Value(applied.value))))
                ELSE applied,
                <<key>>)

\* The ReadResult::Unresolved arm: the base of the delta comes from the base
\* view, a miss being a STORAGE_ERROR.
GetValueUnresolved(delta, key, base) ==
    LET state_value == base[key]
        from_storage ==
            IF state_value.kind = "Err" THEN state_value
            ELSE IF state_value.value = NoneOpt THEN Err("STORAGE_ERROR")
            ELSE Deserialize(state_value.value[1])
        applied ==
            IF from_storage.kind = "Ok"
            THEN ApplyTo(delta, from_storage.value)
            ELSE from_storage
    IN  Returns(IF applied.kind = "Ok"
                THEN Ok(Some(MoveValue(U128Value(applied.value))))
                ELSE applied,
                <<key>>)

\* The ReadResult::None arm with an error of the base view read as a miss.
MutGetValueNoneSwallowsError(key, hint, base) ==
    LET state_value == base[key]
    IN  Returns(IF state_value.kind = "Err" THEN Ok(NoneOpt)
                ELSE IF state_value.value = NoneOpt THEN Ok(NoneOpt)
                ELSE MultiVersionFromBlob(hint, state_value.value[1]),
                <<key>>)

\* The ReadResult::None arm: the value comes from the base view.
GetValueNone(key, hint, base) ==
    LET state_value == base[key]
    IN  Returns(IF state_value.kind = "Err" THEN state_value
                ELSE IF state_value.value = NoneOpt THEN Ok(NoneOpt)
                ELSE MultiVersionFromBlob(hint, state_value.value[1]),
                <<key>>)

\* The arms of ViewMapKind::MultiVersion with an aggregated integer handed to
\* the VM as an error.
MutGetValueU128AsError(read, key, hint, base) ==
    CASE read.tag = "Value" -> Returns(Ok(ValueRead(read.v)), <<>>)
      [] read.tag = "U128" -> Returns(Err("DELTA_APPLICATION_FAILURE"), <<>>)
      [] read.tag = "Unresolved" -> GetValueUnresolved(read.delta, key, base)
      [] read.tag = "None" -> GetValueNone(key, hint, base)

\* The arms of ViewMapKind::MultiVersion on what map.read returned.
GetValueMultiVersion(read, key, hint, base) ==
    CASE read.tag = "Value" -> Returns(Ok(ValueRead(read.v)), <<>>)
      [] read.tag = "U128" -> Returns(Ok(Some(MoveValue(U128Value(read.n)))), <<>>)
      [] read.tag = "Unresolved" -> GetValueUnresolved(read.delta, key, base)
      [] read.tag = "None" -> GetValueNone(key, hint, base)

\* The closure of the ViewMapKind::BTree arm on the bytes the base view holds.
BTreeFromBlob(hint, blob) ==
    IF hint # NoneOpt
    THEN LET value == SimpleDeserialize(blob, hint[1])
         IN  IF value = NoneOpt
             THEN Panic("should deserialize")
             ELSE Ok(Some(MoveValue(value[1])))
    ELSE Ok(Some(Serialized(blob)))

\* The ViewMapKind::BTree arm asking the base view for a key the map holds.
MutGetValueBTreeAsksBaseAnyway(map, key, hint, base) ==
    LET blob == base[key]
    IN  IF map[key] = NoneOpt
        THEN Returns(IF blob.kind = "Err" THEN blob
                     ELSE IF blob.value = NoneOpt THEN Ok(NoneOpt)
                     ELSE BTreeFromBlob(hint, blob.value[1]),
                     <<key>>)
        ELSE Returns(Ok(ValueRead(map[key][1])), <<key>>)

\* The ViewMapKind::BTree arm: map.get(key), and the base view when the map
\* has no entry.
GetValueBTree(map, key, hint, base) ==
    IF map[key] = NoneOpt
    THEN LET blob == base[key]
         IN  Returns(IF blob.kind = "Err" THEN blob
                     ELSE IF blob.value = NoneOpt THEN Ok(NoneOpt)
                     ELSE BTreeFromBlob(hint, blob.value[1]),
                     <<key>>)
    ELSE Returns(Ok(ValueRead(map[key][1])), <<>>)

\* LatestView::new_mv_view, LatestView::new_btree_view
NewMvView(txn_idx) ==
    [kind |-> "MultiVersion", map |-> [key \in Keys |-> NoneOpt], txn_idx |-> txn_idx]
NewBtreeView(map, txn_idx) == [kind |-> "BTree", map |-> map, txn_idx |-> txn_idx]

\* The BTreeMap<T::Key, T::ReadValue> of a sequential execution.
BTreeMaps == [Keys -> {NoneOpt} \cup {Some(v) : v \in ReadValues}]

LatestViews ==
    {NewMvView(txn_idx) : txn_idx \in TxnIndices}
    \cup {NewBtreeView(map, 0) : map \in BTreeMaps}

\* The VM calls get_value on the multi-version view: map.read enters its loop.
CallGetValue(key, hint) ==
    /\ latest_view.kind = "MultiVersion"
    /\ view_pc = "idle"
    /\ completed_reads < MaxReads
    /\ view_call' = [key |-> key, hint |-> hint]
    /\ view_pc' = "query"
    /\ mvs_queries' = 0
    /\ mvs_outcome' = NoneOpt
    /\ wait_calls' = <<>>
    /\ dep_resolved' = FALSE
    /\ wakeups' = 0
    /\ base_view_reads' = <<>>
    /\ read_result' = NoneOpt
    /\ get_value_result' = NoneOpt
    /\ UNCHANGED <<base_view, latest_view, captured_reads, completed_reads>>
    /\ UNCHANGED <<aggVars, loopVars, coordVars, execVars, appended>>

\* What scheduler.wait_for_dependency returns: None, or a condition whose
\* flag is read under the lock.  A flag found true lets the turn end at once,
\* which drops the condition.
DependencyConditions == {NoneOpt, Some(FALSE), Some(TRUE)}

\* One turn of the loop of MVHashMapView::read.  A turn that returns is
\* followed by the rest of get_value; a turn on Dependency calls
\* wait_for_dependency and either goes round again or waits on the cvar.
VersionedMapRead(outcome, dep_condition) ==
    /\ view_pc = "query"
    /\ \/ /\ outcome \in ReturningOutcomes(latest_view.txn_idx)
          /\ dep_condition = NoneOpt
       \/ /\ outcome \in {MVDependency(dep_idx) :
                             dep_idx \in {i \in TxnIndices : i < latest_view.txn_idx}}
          /\ mvs_queries + 1 < MaxQueries
    /\ mvs_queries' = mvs_queries + 1
    /\ mvs_outcome' = Some(outcome)
    /\ LET turn == ReadIteration(captured_reads, view_call.key, outcome)
       IN  /\ captured_reads' = turn.captured_reads
           /\ IF turn.returned # NoneOpt
              THEN LET got == GetValueMultiVersion(turn.returned[1], view_call.key,
                                                   view_call.hint, base_view)
                   IN  /\ read_result' = turn.returned
                       /\ get_value_result' = Some(got.result)
                       /\ base_view_reads' = got.base_view_reads
                       /\ completed_reads' = completed_reads + 1
                       /\ view_pc' = IF got.result.kind = "Panic"
                                     THEN "panicked" ELSE "idle"
                       /\ UNCHANGED <<wait_calls, dep_resolved>>
              ELSE /\ wait_calls' =
                          Append(wait_calls,
                                 [txn_idx |-> latest_view.txn_idx,
                                  dep_idx |-> outcome.idx,
                                  returned |-> IF dep_condition = NoneOpt
                                               THEN "None" ELSE "Some"])
                   /\ IF dep_condition = NoneOpt
                      THEN /\ view_pc' = "query"
                           /\ UNCHANGED dep_resolved
                      ELSE /\ dep_resolved' = FALSE
                           /\ view_pc' = IF dep_condition[1] THEN "query" ELSE "waiting"
                   /\ UNCHANGED <<read_result, get_value_result, base_view_reads,
                                  completed_reads>>
    /\ UNCHANGED <<base_view, latest_view, view_call, wakeups>>
    /\ UNCHANGED <<aggVars, loopVars, coordVars, execVars, appended>>

\* The scheduler marks the dependency resolved.
SchedulerResolves ==
    /\ view_pc = "waiting"
    /\ ~dep_resolved
    /\ dep_resolved' = TRUE
    /\ UNCHANGED <<base_view, latest_view, view_pc, view_call, captured_reads,
                   completed_reads, mvs_queries, mvs_outcome, wait_calls, wakeups,
                   base_view_reads, read_result, get_value_result>>
    /\ UNCHANGED <<aggVars, loopVars, coordVars, execVars, appended>>

\* cvar.wait returns and the reader goes on without testing the flag.
MutCvarWakeupIgnoresFlag ==
    /\ view_pc = "waiting"
    /\ dep_resolved \/ wakeups < MaxWakeups
    /\ view_pc' = "query"
    /\ dep_resolved' = FALSE
    /\ wakeups' = 0
    /\ UNCHANGED <<base_view, latest_view, view_call, captured_reads,
                   completed_reads, mvs_queries, mvs_outcome, wait_calls,
                   base_view_reads, read_result, get_value_result>>
    /\ UNCHANGED <<aggVars, loopVars, coordVars, execVars, appended>>

\* cvar.wait returns, signalled or not: the while loop tests the flag again,
\* and past the loop the guard and the condition are dropped.
CvarWakeup ==
    /\ view_pc = "waiting"
    /\ dep_resolved \/ wakeups < MaxWakeups
    /\ IF dep_resolved
       THEN /\ view_pc' = "query"
            /\ dep_resolved' = FALSE
            /\ wakeups' = 0
       ELSE /\ view_pc' = "waiting"
            /\ wakeups' = wakeups + 1
            /\ UNCHANGED dep_resolved
    /\ UNCHANGED <<base_view, latest_view, view_call, captured_reads,
                   completed_reads, mvs_queries, mvs_outcome, wait_calls,
                   base_view_reads, read_result, get_value_result>>
    /\ UNCHANGED <<aggVars, loopVars, coordVars, execVars, appended>>

\* MVHashMapView::take_reads
TakeReads ==
    /\ latest_view.kind = "MultiVersion"
    /\ view_pc = "idle"
    /\ captured_reads # <<>>
    /\ captured_reads' = <<>>
    /\ completed_reads' = 0
    /\ UNCHANGED <<base_view, latest_view, view_pc, view_call, mvs_queries, mvs_outcome,
                   wait_calls, dep_resolved, wakeups, base_view_reads,
                   read_result, get_value_result>>
    /\ UNCHANGED <<aggVars, loopVars, coordVars, execVars, appended>>

\* The VM calls get_value on the BTree view.
CallGetValueBTree(key, hint) ==
    /\ latest_view.kind = "BTree"
    /\ view_pc = "idle"
    /\ LET got == GetValueBTree(latest_view.map, key, hint, base_view)
       IN  /\ get_value_result' = Some(got.result)
           /\ base_view_reads' = got.base_view_reads
           /\ view_pc' = IF got.result.kind = "Panic" THEN "panicked" ELSE "idle"
    /\ view_call' = [key |-> key, hint |-> hint]
    /\ UNCHANGED <<base_view, latest_view, captured_reads, completed_reads,
                   mvs_queries, mvs_outcome, wait_calls, dep_resolved, wakeups, read_result>>
    /\ UNCHANGED <<aggVars, loopVars, coordVars, execVars, appended>>


(***************************************************************************)
(* Workers executing a block against the versioned map and the scheduler  *)
(***************************************************************************)
Workers == 1..NumWorkers
BlockTxns == 0..(BlockSize - 1)

\* A transaction of the block reads at most one key and then writes at most
\* one key; NoKey stands for no access.
NoKey == 0
Programs == [reads : {NoKey, 1}, writes : {NoKey, 1}]
Blocks == [BlockTxns -> Programs]

\* EntryCell of the versioned map.
NoCell == [cell |-> "absent", incarnation |-> 0]
Written(incarnation) == [cell |-> "Written", incarnation |-> incarnation]
Estimate == [cell |-> "Estimate", incarnation |-> 0]

\* The value transaction idx writes.
WrittenValue(idx) == [cached |-> Some(Serialized(Serialize(idx % (U128Max + 1))))]

Max(set) == CHOOSE x \in set : \A y \in set : y <= x
Min(a, b) == IF a < b THEN a ELSE b

\* MVHashMap::read for a map that holds values only: the cell of the greatest
\* transaction below txn_idx decides.
MVRead(map, key, txn_idx) ==
    LET below == {idx \in BlockTxns : idx < txn_idx /\ map[key][idx] # NoCell}
    IN  IF below = {} THEN MVNotFound
        ELSE LET idx == Max(below)
             IN  IF map[key][idx] = Estimate
                 THEN MVDependency(idx)
                 ELSE MVVersion(idx, map[key][idx].incarnation, WrittenValue(idx))

\* Transaction status of the scheduler.
Status(state, incarnation) == [state |-> state, incarnation |-> incarnation]

\* What a worker is at: where it stands in its task, the version it runs,
\* the reads it captured, the dependency it met and whether it slept on the
\* condition of one during the task.
Idle == [pc |-> "next_task", txn_idx |-> 0, incarnation |-> 0,
         captured_reads |-> <<>>, dep_idx |-> 0, slept |-> FALSE]
Task(pc, txn_idx, incarnation) ==
    [pc |-> pc, txn_idx |-> txn_idx, incarnation |-> incarnation,
     captured_reads |-> <<>>, dep_idx |-> 0, slept |-> FALSE]

\* Scheduler::next_task: a validation task when validation_idx is behind
\* execution_idx, else an execution task at execution_idx; NoTask when the
\* transaction at the index is not in the state for it.
NextTask(w) ==
    /\ worker[w].pc = "next_task"
    /\ IF validation_idx < execution_idx
       THEN /\ validation_idx' = validation_idx + 1
            /\ worker' =
                  [worker EXCEPT ![w] =
                      IF txn_status[validation_idx].state = "Executed"
                      THEN Task("validate", validation_idx,
                                txn_status[validation_idx].incarnation)
                      ELSE Idle]
            /\ UNCHANGED <<execution_idx, txn_status>>
       ELSE /\ execution_idx < BlockSize
            /\ execution_idx' = execution_idx + 1
            /\ IF txn_status[execution_idx].state = "ReadyToExecute"
               THEN /\ txn_status' =
                          [txn_status EXCEPT ![execution_idx].state = "Executing"]
                    /\ worker' =
                          [worker EXCEPT ![w] =
                              Task("read", execution_idx,
                                   txn_status[execution_idx].incarnation)]
               ELSE UNCHANGED <<txn_status, worker>>
            /\ UNCHANGED validation_idx
    /\ UNCHANGED <<block, versioned_map, last_reads, dependencies, dep_flag>>
    /\ UNCHANGED <<aggVars, loopVars, coordVars, viewVars, appended>>

\* The transaction's read: one turn of the loop of MVHashMapView::read on
\* what the versioned map answers now.
ExecRead(w) ==
    /\ worker[w].pc = "read"
    /\ LET txn_idx == worker[w].txn_idx
           key == block[txn_idx].reads
       IN  IF key = NoKey
           THEN worker' = [worker EXCEPT ![w].pc = "finish"]
           ELSE LET outcome == MVRead(versioned_map, key, txn_idx)
                    turn == ReadIteration(worker[w].captured_reads, key, outcome)
                IN  worker' =
                        [worker EXCEPT
                            ![w].captured_reads = turn.captured_reads,
                            ![w].dep_idx = outcome.idx,
                            ![w].pc = IF turn.returned # NoneOpt
                                      THEN "finish" ELSE "wait_for_dependency"]
    /\ UNCHANGED <<block, txn_status, execution_idx, validation_idx,
                   versioned_map, last_reads, dependencies, dep_flag>>
    /\ UNCHANGED <<aggVars, loopVars, coordVars, viewVars, appended>>

\* Scheduler::wait_for_dependency: None when dep_idx has executed meanwhile,
\* else the reader joins the waiters of dep_idx and gets its condition.
WaitForDependency(w) ==
    /\ worker[w].pc = "wait_for_dependency"
    /\ LET txn_idx == worker[w].txn_idx
           dep_idx == worker[w].dep_idx
       IN  IF txn_status[dep_idx].state = "Executed"
           THEN /\ worker' = [worker EXCEPT ![w].pc = "read"]
                /\ UNCHANGED <<dependencies, dep_flag>>
           ELSE /\ dependencies' =
                      [dependencies EXCEPT ![dep_idx] = @ \cup {txn_idx}]
                /\ dep_flag' = [dep_flag EXCEPT ![txn_idx] = FALSE]
                /\ worker' = [worker EXCEPT ![w].pc = "lock"]
    /\ UNCHANGED <<block, txn_status, execution_idx, validation_idx,
                   versioned_map, last_reads>>
    /\ UNCHANGED <<aggVars, loopVars, coordVars, viewVars, appended>>

\* lock.lock() and the first test of the while loop.
ExecLock(w) ==
    /\ worker[w].pc = "lock"
    /\ worker' = [worker EXCEPT
                     ![w].pc = IF dep_flag[worker[w].txn_idx] THEN "read" ELSE "waiting",
                     ![w].slept = @ \/ ~dep_flag[worker[w].txn_idx]]
    /\ UNCHANGED <<block, txn_status, execution_idx, validation_idx,
                   versioned_map, last_reads, dependencies, dep_flag>>
    /\ UNCHANGED <<aggVars, loopVars, coordVars, viewVars, appended>>

\* The test of the while loop inverted: the reader sleeps on once the flag
\* is true.
MutExecCvarWakeupSleepsOn(w) ==
    /\ worker[w].pc = "waiting"
    /\ ~dep_flag[worker[w].txn_idx]
    /\ worker' = [worker EXCEPT ![w].pc = "read"]
    /\ UNCHANGED <<block, txn_status, execution_idx, validation_idx,
                   versioned_map, last_reads, dependencies, dep_flag>>
    /\ UNCHANGED <<aggVars, loopVars, coordVars, viewVars, appended>>

\* cvar.wait returns with the flag true: the while loop ends and the read
\* loop goes round again.  A return with the flag false changes nothing.
ExecCvarWakeup(w) ==
    /\ worker[w].pc = "waiting"
    /\ dep_flag[worker[w].txn_idx]
    /\ worker' = [worker EXCEPT ![w].pc = "read"]
    /\ UNCHANGED <<block, txn_status, execution_idx, validation_idx,
                   versioned_map, last_reads, dependencies, dep_flag>>
    /\ UNCHANGED <<aggVars, loopVars, coordVars, viewVars, appended>>

\* The flags of the waiters of txn_idx set and the waiters signalled.
Resumed(flags, txn_idx) ==
    [waiter \in BlockTxns |->
        IF waiter \in dependencies[txn_idx] THEN TRUE ELSE flags[waiter]]

\* The worker writes the output into the versioned map and calls
\* Scheduler::finish_execution: the status becomes Executed, validation_idx
\* is lowered to the transaction and its waiters are woken.
FinishExecution(w) ==
    /\ worker[w].pc = "finish"
    /\ LET txn_idx == worker[w].txn_idx
           key == block[txn_idx].writes
       IN  /\ versioned_map' =
                 IF key = NoKey THEN versioned_map
                 ELSE [versioned_map EXCEPT
                          ![key][txn_idx] = Written(worker[w].incarnation)]
           /\ txn_status' = [txn_status EXCEPT ![txn_idx].state = "Executed"]
           /\ last_reads' = [last_reads EXCEPT ![txn_idx] = worker[w].captured_reads]
           /\ validation_idx' = Min(validation_idx, txn_idx)
           /\ dep_flag' = Resumed(dep_flag, txn_idx)
           /\ dependencies' = [dependencies EXCEPT ![txn_idx] = {}]
    /\ worker' = [worker EXCEPT ![w] = Idle]
    /\ UNCHANGED <<block, execution_idx>>
    /\ UNCHANGED <<aggVars, loopVars, coordVars, viewVars, appended>>

\* A captured read still holds: the versioned map answers the key with the
\* outcome the descriptor was captured for.
ReadValid(descriptor, txn_idx) ==
    LET outcome == MVRead(versioned_map, descriptor.key, txn_idx)
    IN  /\ outcome.tag # "Dependency"
        /\ ReadIteration(<<>>, descriptor.key, outcome).captured_reads = <<descriptor>>

\* The validation task and, on a read that no longer holds, the abort: the
\* writes become estimates, the next incarnation becomes ready and
\* validation_idx is lowered to the transaction.  execution_idx is lowered
\* with it, which is how next_task comes to hand out the next incarnation.
FinishValidation(w) ==
    /\ worker[w].pc = "validate"
    /\ LET txn_idx == worker[w].txn_idx
           key == block[txn_idx].writes
           current == txn_status[txn_idx] = Status("Executed", worker[w].incarnation)
           valid == \A i \in 1..Len(last_reads[txn_idx]) :
                        ReadValid(last_reads[txn_idx][i], txn_idx)
       IN  IF current /\ ~valid
           THEN /\ versioned_map' =
                      IF key = NoKey THEN versioned_map
                      ELSE [versioned_map EXCEPT ![key][txn_idx] = Estimate]
                /\ txn_status' =
                      [txn_status EXCEPT
                          ![txn_idx] = Status("ReadyToExecute", worker[w].incarnation + 1)]
                /\ validation_idx' = Min(validation_idx, txn_idx)
                /\ execution_idx' = Min(execution_idx, txn_idx)
                /\ dep_flag' = Resumed(dep_flag, txn_idx)
                /\ dependencies' = [dependencies EXCEPT ![txn_idx] = {}]
           ELSE UNCHANGED <<versioned_map, txn_status, validation_idx,
                            execution_idx, dep_flag, dependencies>>
    /\ worker' = [worker EXCEPT ![w] = Idle]
    /\ UNCHANGED <<block, last_reads>>
    /\ UNCHANGED <<aggVars, loopVars, coordVars, viewVars, appended>>

\* A step of one worker thread.
WorkerStep(w) ==
    \/ NextTask(w)
    \/ ExecRead(w)
    \/ WaitForDependency(w)
    \/ ExecLock(w)
    \/ ExecCvarWakeup(w)
    \/ FinishExecution(w)
    \/ FinishValidation(w)

(***************************************************************************)
(* Specifications                                                          *)
(***************************************************************************)
vars == <<aggVars, loopVars, coordVars, executorVars>>

AggInit ==
    /\ digest_to_proof = NewProofCoordinator.digest_to_proof
    /\ digest_to_time = NewProofCoordinator.digest_to_time
    /\ timeouts = NewProofCoordinator.timeouts
    /\ now = 0
    /\ timeout_batches_count = 0
    /\ broadcast = [d \in Digests |-> 0]
    /\ result = Ok(NoneOpt)

LoopInit ==
    /\ pc_rx = <<>>
    /\ pc_loop = "running"
    /\ pc_ack = "none"
    /\ pc_appends_sent = 0
    /\ pc_appends_handled = 0
    /\ pc_shutdown_mark = NoneOpt

CoordInit ==
    /\ qs_rx = <<>>
    /\ qs_closed = FALSE
    /\ qs_pc = "recv"
    /\ qs_cmd = NoCommand
    /\ qs_nl = 1
    /\ qs_commits = 0
    /\ shutdown_requested = FALSE
    /\ sent = [c \in CommandChannels |-> <<>>]
    /\ bs_ack = "none"
    /\ nl_ack = [i \in Listeners |-> "none"]
    /\ caller_ack = "none"

\* The read proxy before its first call.
ViewIdle ==
    /\ view_pc = "idle"
    /\ view_call = [key |-> 1, hint |-> NoneOpt]
    /\ captured_reads = <<>>
    /\ completed_reads = 0
    /\ mvs_queries = 0
    /\ mvs_outcome = NoneOpt
    /\ wait_calls = <<>>
    /\ dep_resolved = FALSE
    /\ wakeups = 0
    /\ base_view_reads = <<>>
    /\ read_result = NoneOpt
    /\ get_value_result = NoneOpt

\* The block executor before a worker asked for its first task.
ExecIdle ==
    /\ txn_status = [txn_idx \in BlockTxns |-> Status("ReadyToExecute", 0)]
    /\ execution_idx = 0
    /\ validation_idx = 0
    /\ versioned_map = [key \in Keys |-> [txn_idx \in BlockTxns |-> NoCell]]
    /\ worker = [w \in Workers |-> Idle]
    /\ last_reads = [txn_idx \in BlockTxns |-> <<>>]
    /\ dependencies = [txn_idx \in BlockTxns |-> {}]
    /\ dep_flag = [txn_idx \in BlockTxns |-> FALSE]

EmptyBlock == [txn_idx \in BlockTxns |-> [reads |-> NoKey, writes |-> NoKey]]

ExecutorInit ==
    /\ base_view = [key \in Keys |-> Ok(NoneOpt)]
    /\ latest_view = NewMvView(0)
    /\ ViewIdle
    /\ block = EmptyBlock
    /\ ExecIdle
    /\ appended = {}

\* A LatestView of either kind over any base view.
ViewInit ==
    /\ AggInit /\ LoopInit /\ CoordInit
    /\ base_view \in BaseViews
    /\ latest_view \in LatestViews
    /\ ViewIdle
    /\ block = EmptyBlock
    /\ ExecIdle
    /\ appended = {}

\* Any block before its execution.
ExecInit ==
    /\ AggInit /\ LoopInit /\ CoordInit
    /\ base_view = [key \in Keys |-> Ok(NoneOpt)]
    /\ latest_view = NewMvView(0)
    /\ ViewIdle
    /\ block \in Blocks
    /\ ExecIdle
    /\ appended = {}

Init == AggInit /\ LoopInit /\ CoordInit /\ ExecutorInit

AggNext ==
    \/ \E signed_digest \in SignedDigests : AppendSignature(signed_digest)
    \/ Tick
    \/ AdvanceClock

\* The aggregator alone: add_signature and expire called in any order.
SpecAgg == Init /\ [][AggNext]_vars

\* The coordinator's shutdown of the proof coordinator, taken alone.
CoordinatorSendsShutdown ==
    /\ pc_loop = "running"
    /\ pc_ack = "none"
    /\ EnqueueShutdown
    /\ UNCHANGED <<aggVars, coordVars, executorVars>>

\* An append of a signed digest whose signer has not signed its digest
\* before.
AppendSignatureOnce(signed_digest) ==
    /\ <<signed_digest.signer, signed_digest.info.digest>> \notin appended
    /\ CallsInitProof(signed_digest) => BatchesCreated < MaxBatches
    /\ HandleAppendSignature(signed_digest)
    /\ appended' = appended \cup {<<signed_digest.signer, signed_digest.info.digest>>}
    /\ UNCHANGED <<loopVars, coordVars, viewVars, execVars>>

OnceNext ==
    \/ \E signed_digest \in SignedDigests : AppendSignatureOnce(signed_digest)
    \/ Tick
    \/ AdvanceClock

\* The aggregator with every contributor signing a digest at most once.
SpecOnce == Init /\ [][OnceNext]_vars

LoopNext ==
    \/ \E signed_digest \in SignedDigests : NetworkSendsSignedDigest(signed_digest)
    \/ CoordinatorSendsShutdown
    \/ ProofCoordinatorRecv
    \/ ProofCoordinatorTick
    \/ AdvanceClock

\* The proof coordinator's event loop fed by the network and shut down once.
SpecLoop == Init /\ [][LoopNext]_vars

Next ==
    \/ \E time \in LogicalTimes, digests \in CommitDigestLists :
          SendCommitNotification(time, digests)
    \/ SendShutdown
    \/ DropSenders
    \/ CoordinatorRecv
    \/ ForwardToProofManager
    \/ ForwardToBatchGenerator
    \/ ShutdownBatchStore
    \/ \E answer \in {"sent", "dropped"} : BatchStoreAnswers(answer)
    \/ AwaitBatchStore
    \/ ShutdownProofCoordinator
    \/ ProofCoordinatorRecv
    \/ ProofCoordinatorTick
    \/ AwaitProofCoordinator
    \/ ShutdownListener
    \/ \E i \in Listeners, answer \in {"sent", "dropped"} : ListenerAnswers(i, answer)
    \/ AwaitListener
    \/ AckCaller

\* The coordinator, the subsystems it shuts down and the proof coordinator's
\* event loop.
Spec == Init /\ [][Next]_vars

\* A step of the task running QuorumStoreCoordinator::start.
CoordinatorStep ==
    \/ CoordinatorRecv
    \/ ForwardToProofManager
    \/ ForwardToBatchGenerator
    \/ ShutdownBatchStore
    \/ AwaitBatchStore
    \/ ShutdownProofCoordinator
    \/ AwaitProofCoordinator
    \/ ShutdownListener
    \/ AwaitListener
    \/ AckCaller

\* A subsystem handles the Shutdown it was sent.
SubsystemStep ==
    \/ \E answer \in {"sent", "dropped"} : BatchStoreAnswers(answer)
    \/ ProofCoordinatorRecv
    \/ \E i \in Listeners, answer \in {"sent", "dropped"} : ListenerAnswers(i, answer)

\* The same with the coordinator's task polled whenever it can go on and
\* every subsystem handling what it was sent.
SpecLive == Spec /\ WF_vars(CoordinatorStep) /\ WF_vars(SubsystemStep)

ViewNext ==
    \/ \E key \in Keys, hint \in Hints : CallGetValue(key, hint)
    \/ \E txn_idx \in TxnIndices, dep_condition \in DependencyConditions :
          \E outcome \in ReturningOutcomes(txn_idx)
                          \cup {MVDependency(dep_idx) : dep_idx \in TxnIndices} :
              VersionedMapRead(outcome, dep_condition)
    \/ SchedulerResolves
    \/ CvarWakeup
    \/ TakeReads
    \/ \E key \in Keys, hint \in Hints : CallGetValueBTree(key, hint)

\* One worker's LatestView answering the VM, the versioned map and the
\* scheduler answering as they may.
SpecView == ViewInit /\ [][ViewNext]_vars


ExecNext == \E w \in Workers : WorkerStep(w)

\* The workers executing a block, any interleaving of their steps.
SpecExec == ExecInit /\ [][ExecNext]_vars

\* The same under fair scheduling of the worker threads: a worker that can
\* take a step eventually takes one.
SpecExecFair == SpecExec /\ \A w \in Workers : WF_vars(WorkerStep(w))

(***************************************************************************)
(* Notions the claims are stated in.                                       *)
(***************************************************************************)
HasState(d) == d \in DOMAIN digest_to_proof

\* The contributor set of digest d, empty when d has no state.
Contributors(d) ==
    IF HasState(d) THEN DOMAIN digest_to_proof[d].aggregated_signature ELSE {}

ReturnedProof(r) == r.kind = "Ok" /\ r.value # NoneOpt

\* Digest d has the same proof state, or the same absence of one, in the
\* next state.
StateUnchanged(d) ==
    /\ (d \in DOMAIN digest_to_proof') = HasState(d)
    /\ HasState(d) => digest_to_proof'[d] = digest_to_proof[d]

\* Some timeout queued for digest d has elapsed.
TimeoutElapsed(d) ==
    \E i \in 1..Len(timeouts) : timeouts[i][2] = d /\ timeouts[i][1] <= now

\* A Shutdown command was sent on this command channel.
ShutdownSentOn(channel) ==
    \E i \in 1..Len(sent[channel]) : sent[channel][i].type = "Shutdown"

\* A subsystem dropped the oneshot it was handed without answering it.
AckDropped == bs_ack = "dropped" \/ \E i \in Listeners : nl_ack[i] = "dropped"

(***************************************************************************)
(* C1. add_signature returns a proof exactly when the append was accepted  *)
(* and the contributor set with the new signer in it contains the local    *)
(* peer and passes the verifier's voting power check; a tick returns and   *)
(* broadcasts nothing.                                                     *)
(***************************************************************************)
C1_ProofIffReady ==
    [][ /\ \A sd \in SignedDigests :
             AppendSignature(sd) =>
                 LET after == Contributors(sd.info.digest) \cup {sd.signer}
                 IN  ReturnedProof(result') <=>
                         /\ result'.kind = "Ok"
                         /\ MyPeerId \in after
                         /\ CheckVotingPower(after)
        /\ Tick => result' = result /\ broadcast' = broadcast ]_vars

\* A proof was returned for one digest while another digest holds a
\* contributor set that passes the voting power check without the local peer.
C1_Witness ==
    /\ ReturnedProof(result)
    /\ \E d \in Digests :
          /\ HasState(d)
          /\ MyPeerId \notin Contributors(d)
          /\ CheckVotingPower(Contributors(d))

(***************************************************************************)
(* C2. For a digest without a state, add_signature creates a state only if *)
(* the local peer is the batch author of the info; otherwise it returns    *)
(* WrongInfo and leaves digest_to_proof, digest_to_time and timeouts alone. *)
(***************************************************************************)
C2_UnknownDigestNeedsLocalAuthor ==
    [][ \A sd \in SignedDigests :
          (AppendSignature(sd) /\ ~HasState(sd.info.digest)) =>
              IF sd.info.batch_author = MyPeerId
              THEN /\ result'.kind = "Ok"
                   /\ timeouts' = Append(timeouts, <<now + ProofTimeout, sd.info.digest>>)
              ELSE /\ result' = Err("WrongInfo")
                   /\ UNCHANGED <<digest_to_proof, digest_to_time, timeouts>> ]_vars

\* WrongInfo was returned and no state has ever been created.
C2_Witness == result = Err("WrongInfo") /\ BatchesCreated = 0

(***************************************************************************)
(* C3. Appending the same signed digest twice in a row: when the first     *)
(* append is accepted, the second returns DuplicatedSignature and leaves   *)
(* digest_to_proof and digest_to_time as the first call left them.         *)
(***************************************************************************)
C3_SecondAppendIsDuplicate ==
    \A sd \in SignedDigests :
        LET first  == AddSignature(Self, sd, now)
            second == AddSignature(first.self, sd, now)
        IN  first.result.kind = "Ok" =>
                /\ second.result = Err("DuplicatedSignature")
                /\ second.self.digest_to_proof = first.self.digest_to_proof
                /\ second.self.digest_to_time = first.self.digest_to_time

(***************************************************************************)
(* C4. For a digest with a state, a signed digest whose info differs from  *)
(* the stored info is answered WrongInfo, whether or not its signer has    *)
(* already contributed; nothing is inserted and no proof is emitted.       *)
(***************************************************************************)
C4_InfoMismatchRejected ==
    [][ \A sd \in SignedDigests :
          ( /\ AppendSignature(sd)
            /\ HasState(sd.info.digest)
            /\ sd.info # digest_to_proof[sd.info.digest].info ) =>
              /\ result' = Err("WrongInfo")
              /\ UNCHANGED <<digest_to_proof, digest_to_time, timeouts, broadcast>> ]_vars

\* WrongInfo was returned while every digest had a state, so the rejected
\* signed digest met a state with another info.
C4_Witness ==
    /\ result = Err("WrongInfo")
    /\ \A d \in Digests : HasState(d)

(***************************************************************************)
(* C5. When add_signature returns a proof for digest d, d is left with no  *)
(* entry in digest_to_proof and none in digest_to_time, and every other    *)
(* digest keeps its state and its creation time.                           *)
(***************************************************************************)
C5_ProofRemovesOnlyItsState ==
    [][ \A sd \in SignedDigests :
          (AppendSignature(sd) /\ ReturnedProof(result')) =>
              /\ sd.info.digest \notin DOMAIN digest_to_proof'
              /\ sd.info.digest \notin DOMAIN digest_to_time'
              /\ \A e \in Digests \ {sd.info.digest} :
                    /\ StateUnchanged(e)
                    /\ (e \in DOMAIN digest_to_time') = (e \in DOMAIN digest_to_time)
                    /\ e \in DOMAIN digest_to_time =>
                          digest_to_time'[e] = digest_to_time[e] ]_vars

\* A proof was returned for a digest, which has no state and no creation
\* time, while another digest has a state.
C5_Witness ==
    /\ ReturnedProof(result)
    /\ LET d == result.value[1].info.digest
       IN  /\ ~HasState(d)
           /\ d \notin DOMAIN digest_to_time
           /\ \E e \in Digests \ {d} : HasState(e)

C7_ShutdownDrainsThenStops ==
    [][ /\ pc_ack' = "sent" =>
             /\ pc_loop' = "stopped"
             /\ pc_shutdown_mark' # NoneOpt
             /\ pc_appends_handled' = pc_shutdown_mark'[1]
        /\ pc_loop = "stopped" =>
             UNCHANGED <<digest_to_proof, digest_to_time, timeouts,
                         timeout_batches_count, broadcast, result,
                         pc_appends_handled, pc_loop, pc_ack>> ]_vars

\* The loop has replied and stopped after handling the one append enqueued
\* before the Shutdown; an append enqueued after the Shutdown was not handled.
C7_Witness ==
    /\ pc_ack = "sent"
    /\ pc_loop = "stopped"
    /\ pc_shutdown_mark = Some(1)
    /\ pc_appends_handled = 1
    /\ pc_appends_sent = 2

(***************************************************************************)
(* C8. The coordinator answers its caller's shutdown oneshot only when the *)
(* batch store, the proof coordinator and every network listener have      *)
(* answered theirs.                                                        *)
(***************************************************************************)
C8_CallerAckedAfterAllAcks ==
    caller_ack = "sent" =>
        /\ bs_ack = "sent"
        /\ pc_ack = "sent"
        /\ \A i \in Listeners : nl_ack[i] = "sent"

C8_Witness ==
    /\ caller_ack = "sent"
    /\ qs_pc = "done"
    /\ \A i \in Listeners : nl_ack[i] = "sent"

(***************************************************************************)
(* C9. On Shutdown the coordinator sends Shutdown to every subsystem it    *)
(* holds a command channel to (batch generator, batch coordinator, batch   *)
(* store, proof coordinator, proof manager, every network listener) before *)
(* it answers its caller.                                                  *)
(***************************************************************************)
C9_ShutdownSentToEverySubsystem ==
    caller_ack = "sent" =>
        /\ \A channel \in CommandChannels : ShutdownSentOn(channel)
        /\ pc_ack = "sent"
        /\ \A i \in Listeners : nl_ack[i] = "sent"

(***************************************************************************)
(* C10. A oneshot dropped by the subsystem the coordinator awaits makes    *)
(* the coordinator panic, the caller is never answered once an             *)
(* acknowledgement was dropped, and a coordinator that panicked (on a      *)
(* failed send or a dropped oneshot) takes no further command, sends       *)
(* nothing more and never answers its caller.                              *)
(***************************************************************************)
C10_FailureIsFatal ==
    [][ /\ (AwaitBatchStore /\ bs_ack = "dropped") => qs_pc' = "panicked"
        /\ (AwaitListener /\ nl_ack[qs_nl] = "dropped") => qs_pc' = "panicked"
        /\ AckDropped' => caller_ack' # "sent"
        /\ qs_pc = "panicked" =>
             UNCHANGED <<qs_pc, qs_rx, qs_cmd, sent, caller_ack, pc_rx, pc_ack>> ]_vars

\* The coordinator panicked on a listener's dropped oneshot: the caller is
\* still waiting and a command is left in the channel.
C10_Witness ==
    /\ qs_pc = "panicked"
    /\ \E i \in Listeners : nl_ack[i] = "dropped"
    /\ caller_ack = "pending"
    /\ qs_rx # <<>>

(***************************************************************************)
(* Notions the claims on the read proxy are stated in.                     *)
(***************************************************************************)
\* The get_value call has returned to the VM.
GetValueReturned == get_value_result # NoneOpt

\* The last descriptor captured.
LastCaptured == captured_reads[Len(captured_reads)]

(***************************************************************************)
(* C11. On every outcome of the versioned map other than Dependency, read  *)
(* captures exactly one descriptor of the matching kind for the key and    *)
(* returns the matching result: Version((idx, inc), v) captures            *)
(* Version(idx, inc) and returns Value(v); Resolved(n) captures            *)
(* Resolved(n) and returns U128(n); NotFound captures Storage and returns  *)
(* None; Unresolved(delta) captures Unresolved(delta) and returns          *)
(* Unresolved(delta).                                                      *)
(***************************************************************************)
C11_ReadCapturesAndReturns ==
    [][ (mvs_queries' = mvs_queries + 1 /\ mvs_outcome'[1].tag # "Dependency") =>
            LET key == view_call.key
                outcome == mvs_outcome'[1]
                kind == outcome.tag
            IN  /\ Len(captured_reads') = Len(captured_reads) + 1
                /\ SubSeq(captured_reads', 1, Len(captured_reads)) = captured_reads
                /\ read_result' # NoneOpt
                /\ kind = "Version" =>
                      /\ LastCaptured' = ReadDescriptor(key, "Version", outcome.idx,
                                               outcome.incarnation, 0, NoDelta)
                      /\ read_result' = Some(ReadResultValue(outcome.v))
                /\ kind = "Resolved" =>
                      /\ LastCaptured' = ReadDescriptor(key, "Resolved", 0, 0,
                                                        outcome.n, NoDelta)
                      /\ read_result' = Some(ReadResultU128(outcome.n))
                /\ kind = "NotFound" =>
                      /\ LastCaptured' = ReadDescriptor(key, "Storage", 0, 0, 0, NoDelta)
                      /\ read_result' = Some(ReadResultNone)
                /\ kind = "Unresolved" =>
                      /\ LastCaptured' = ReadDescriptor(key, "Unresolved", 0, 0, 0,
                                                        outcome.delta)
                      /\ read_result' = Some(ReadResultUnresolved(outcome.delta)) ]_vars

\* Two reads returned, the first on a Version outcome and the second on
\* NotFound for the other key.
C11_Witness ==
    /\ Len(captured_reads) = 2
    /\ captured_reads[1].kind = "Version"
    /\ captured_reads[2] = ReadDescriptor(view_call.key, "Storage", 0, 0, 0, NoDelta)
    /\ captured_reads[1].key # captured_reads[2].key
    /\ mvs_outcome = Some(MVNotFound)
    /\ read_result = Some(ReadResultNone)

\* The current turn of the read loop queried the versioned map.
QueriedVersionedMap == mvs_queries' = mvs_queries + 1

(***************************************************************************)
(* C12. The speculative outcomes never reach the VM as errors.  On         *)
(* DeltaApplicationFailure read captures a DeltaFailure descriptor and     *)
(* returns U128(0), which get_value returns as the structured integer 0.   *)
(* On Dependency the read does not return: get_value returns to the VM     *)
(* only on a later query of the versioned map whose outcome is not         *)
(* Dependency.                                                             *)
(***************************************************************************)
C12_SpeculativeOutcomesNotSurfaced ==
    [][ /\ (QueriedVersionedMap /\ mvs_outcome' = Some(MVDeltaApplicationFailure)) =>
              /\ captured_reads' =
                     Append(captured_reads,
                            ReadDescriptor(view_call.key, "DeltaFailure", 0, 0, 0, NoDelta))
              /\ read_result' = Some(ReadResultU128(0))
              /\ get_value_result' = Some(Ok(Some(MoveValue(U128Value(0)))))
        /\ (QueriedVersionedMap /\ mvs_outcome'[1].tag = "Dependency") =>
              /\ read_result' = NoneOpt
              /\ get_value_result' = NoneOpt
              /\ view_pc' \in {"query", "waiting"}
        /\ (latest_view.kind = "MultiVersion" /\ ~GetValueReturned /\ GetValueReturned') =>
              /\ QueriedVersionedMap
              /\ mvs_outcome'[1].tag # "Dependency" ]_vars

\* A read that met Dependency and then DeltaApplicationFailure handed the
\* integer 0 to the VM.
C12_Witness ==
    /\ wait_calls # <<>>
    /\ mvs_outcome = Some(MVDeltaApplicationFailure)
    /\ LastCaptured.kind = "DeltaFailure"
    /\ get_value_result = Some(Ok(Some(MoveValue(U128Value(0)))))

(***************************************************************************)
(* C13. On Dependency(dep_idx) read calls wait_for_dependency(txn_idx,     *)
(* dep_idx) and captures nothing.  With a condition returned the reader    *)
(* queries the versioned map again only once the condition's flag is true, *)
(* a wakeup with the flag still false blocking again; with None returned   *)
(* it queries again without blocking.  So every completed read call has    *)
(* captured exactly one descriptor however many Dependency outcomes it     *)
(* met, and n completed reads of one key have captured n descriptors.      *)
(***************************************************************************)
C13_DependencyWaitsAndCapturesNothing ==
    /\ [](latest_view.kind = "MultiVersion" => Len(captured_reads) = completed_reads)
    /\ [][ /\ (QueriedVersionedMap /\ mvs_outcome'[1].tag = "Dependency") =>
                 /\ captured_reads' = captured_reads
                 /\ completed_reads' = completed_reads
                 /\ Len(wait_calls') = Len(wait_calls) + 1
                 /\ LET call == wait_calls'[Len(wait_calls')]
                    IN  /\ call.txn_idx = latest_view.txn_idx
                        /\ call.dep_idx = mvs_outcome'[1].idx
                        /\ call.returned = "None" => view_pc' = "query"
           /\ (QueriedVersionedMap /\ mvs_outcome'[1].tag # "Dependency") =>
                 /\ Len(captured_reads') = Len(captured_reads) + 1
                 /\ completed_reads' = completed_reads + 1
                 /\ wait_calls' = wait_calls
           /\ QueriedVersionedMap => view_pc = "query"
           /\ (view_pc = "waiting" /\ view_pc' # "waiting") =>
                 dep_resolved /\ view_pc' = "query"
           /\ (view_pc = "waiting" /\ ~dep_resolved) =>
                 view_pc' = "waiting" /\ mvs_queries' = mvs_queries ]_vars

\* Two reads of one key completed, the second after two Dependency outcomes,
\* and captured the same descriptor twice.
C13_Witness ==
    /\ completed_reads = 2
    /\ Len(captured_reads) = 2
    /\ captured_reads[1] = captured_reads[2]
    /\ Len(wait_calls) = 2
    /\ wait_calls[1].returned = "Some"
    /\ wait_calls[2].returned = "None"
    /\ GetValueReturned

\* A worker's read met a dependency and has not returned yet.
OnDependency(w) == worker[w].pc \in {"wait_for_dependency", "lock", "waiting"}

\* A worker sleeps on the condition of a dependency that nobody resolved.
Blocked(w) == worker[w].pc = "waiting" /\ ~dep_flag[worker[w].txn_idx]

StateValue == base_view[view_call.key]

\* The base view holds bytes for the key of the last get_value call.
StorageHit == StateValue.kind = "Ok" /\ StateValue.value # NoneOpt

(***************************************************************************)
(* C15. When read returns None (the versioned map answered NotFound),      *)
(* get_value asks the base view for the same key exactly once: a miss      *)
(* gives Ok(None); a hit with a layout hint gives the value deserialized   *)
(* with that hint; a hit without a hint gives the serialized bytes.        *)
(***************************************************************************)
C15_NotFoundReadsBaseView ==
    (latest_view.kind = "MultiVersion" /\ read_result = Some(ReadResultNone)) =>
        /\ base_view_reads = <<view_call.key>>
        /\ StateValue = Ok(NoneOpt) => get_value_result = Some(Ok(NoneOpt))
        /\ (StorageHit /\ view_call.hint = NoneOpt) =>
              get_value_result = Some(Ok(Some(Serialized(StateValue.value[1]))))
        /\ (StorageHit /\ view_call.hint # NoneOpt) =>
              LET value == SimpleDeserialize(StateValue.value[1], view_call.hint[1])
              IN  value # NoneOpt =>
                      get_value_result = Some(Ok(Some(MoveValue(value[1]))))

\* The base view held the byte 1 for a key the versioned map did not know,
\* and get_value with the hint u8 returned the u8 value 1.
C15_Witness ==
    /\ latest_view.kind = "MultiVersion"
    /\ read_result = Some(ReadResultNone)
    /\ StateValue = Ok(Some(<<1>>))
    /\ view_call.hint = Some("u8")
    /\ base_view_reads = <<view_call.key>>
    /\ get_value_result = Some(Ok(Some(MoveValue(U8Value(1)))))

(***************************************************************************)
(* C16. When read returns Unresolved(delta), get_value fetches the bytes   *)
(* of the key from the base view, decodes them as the u128 base and        *)
(* returns the integer delta.apply_to(base); when the delta does not apply *)
(* to the base (overflow of the limit, underflow) get_value returns an     *)
(* error and no value.                                                     *)
(***************************************************************************)
C16_UnresolvedAppliesDeltaToBase ==
    (GetValueReturned /\ read_result # NoneOpt /\ read_result[1].tag = "Unresolved"
     /\ StorageHit /\ Len(StateValue.value[1]) = U128Bytes) =>
        LET delta == read_result[1].delta
            base == FromLittleEndian(StateValue.value[1])
            fits == IF delta.update = "Plus"
                    THEN base + delta.value <= delta.limit
                    ELSE base >= delta.value
            applied == IF delta.update = "Plus"
                       THEN base + delta.value ELSE base - delta.value
        IN  /\ base_view_reads = <<view_call.key>>
            /\ fits => get_value_result = Some(Ok(Some(MoveValue(U128Value(applied)))))
            /\ ~fits => get_value_result[1].kind = "Err"
            /\ ApplyTo(delta, base) = IF fits THEN Ok(applied) ELSE Err("PartialVMError")

\* The delta +1 within the limit U128Max met the base U128Max - 1 and
\* get_value returned U128Max.
C16_Witness ==
    /\ read_result = Some(ReadResultUnresolved(
                           [update |-> "Plus", value |-> 1, limit |-> U128Max]))
    /\ StateValue = Ok(Some(Serialize(U128Max - 1)))
    /\ get_value_result = Some(Ok(Some(MoveValue(U128Value(U128Max)))))

(***************************************************************************)
(* C17. Whenever the base view answers the key with an error while         *)
(* get_value resolves it (after NotFound, after Unresolved(delta), or in   *)
(* the BTree view for a key the map does not hold), get_value returns an   *)
(* error, never a value and never None.                                    *)
(***************************************************************************)
C17_BaseViewErrorIsReturned ==
    (GetValueReturned /\ base_view_reads # <<>> /\ StateValue.kind = "Err") =>
        /\ base_view_reads = <<view_call.key>>
        /\ get_value_result[1].kind = "Err"
        /\ get_value_result[1].value = NoneOpt

\* The BTree view did not hold the key, the base view answered with an
\* error and get_value returned it.
C17_Witness ==
    /\ latest_view.kind = "BTree"
    /\ latest_view.map[view_call.key] = NoneOpt
    /\ StateValue.kind = "Err"
    /\ base_view_reads = <<view_call.key>>
    /\ get_value_result = Some(StateValue)

\* C18: a tick increments the timeout counter by exactly the number of proof
\* states it removed, so a digest whose proof was already returned is not
\* counted.
C18_TickCountsRemovedStates ==
    [][Tick =>
          timeout_batches_count' - timeout_batches_count =
              Cardinality(DOMAIN digest_to_proof \ DOMAIN digest_to_proof')]_vars

\* The subsystem acknowledgements the coordinator has asked for and not yet
\* been given or refused.
OutstandingAcks ==
    (IF bs_ack = "pending" THEN {"batch_store"} ELSE {})
        \cup (IF pc_ack = "pending" THEN {"proof_coordinator"} ELSE {})
        \cup {i \in Listeners : nl_ack[i] = "pending"}

\* C19: the coordinator shuts its subsystems down one after the other: the
\* proof coordinator is sent Shutdown only after the batch store
\* acknowledged, the first network listener only after the proof coordinator
\* acknowledged, each further listener only after the one before it
\* acknowledged, and at most one acknowledgement is outstanding at any time.
C19_ShutdownIsSequential ==
    /\ [](Cardinality(OutstandingAcks) <= 1)
    /\ [][/\ (pc_ack # "pending" /\ pc_ack' = "pending") => bs_ack = "sent"
          /\ \A i \in Listeners :
                (nl_ack[i] # "pending" /\ nl_ack'[i] = "pending") =>
                    /\ bs_ack = "sent"
                    /\ pc_ack = "sent"
                    /\ \A j \in Listeners : j < i => nl_ack[j] = "sent"
                    /\ \A j \in Listeners : j > i => nl_ack[j] = "none"]_vars

\* The last network listener has been sent Shutdown, after everything before
\* it acknowledged.
C19_Witness ==
    /\ qs_pc = "await_listener"
    /\ qs_nl = NumListeners
    /\ nl_ack[NumListeners] = "pending"
    /\ bs_ack = "sent"
    /\ pc_ack = "sent"
    /\ \A j \in Listeners : j < NumListeners => nl_ack[j] = "sent"

\* The coordinator took CoordinatorCommand::Shutdown from its channel.
ShutdownReceived == qs_cmd.type = "Shutdown"

\* The caller was acknowledged and the loop left by the break.
CallerAcked == qs_pc = "done" /\ caller_ack = "sent"

\* The coordinator panicked on a subsystem that did not take the Shutdown
\* or dropped the acknowledgement.
SubsystemRefused ==
    /\ qs_pc = "panicked"
    /\ \/ bs_ack # "sent"
       \/ pc_ack # "sent"
       \/ \E i \in Listeners : nl_ack[i] # "sent"

\* The coordinator panicked on the caller's acknowledgement after every
\* subsystem acknowledged: the caller dropped the receiver.
CallerGone ==
    /\ qs_pc = "panicked"
    /\ bs_ack = "sent"
    /\ pc_ack = "sent"
    /\ \A i \in Listeners : nl_ack[i] = "sent"
    /\ caller_ack = "pending"

\* Once Shutdown is received no further command is taken or forwarded, the
\* acknowledgement once sent stays sent and the loop once left stays left.
ShutdownIsLast ==
    [][/\ ShutdownReceived =>
             /\ qs_cmd' = qs_cmd
             /\ Len(qs_rx') >= Len(qs_rx)
             /\ sent'["proof_manager"] = sent["proof_manager"]
             /\ sent'["batch_generator"] = sent["batch_generator"]
       /\ caller_ack = "sent" => caller_ack' = "sent"
       /\ qs_pc = "done" => qs_pc' = "done"
       /\ caller_ack' = "sent" => qs_pc' = "done"]_vars

\* C20 as stated: if every subsystem takes the Shutdown and acknowledges,
\* the coordinator, once it received Shutdown, eventually acknowledges its
\* caller, once, and leaves its loop without processing a later command.
C20_ShutdownCompletes ==
    /\ ShutdownReceived ~> (CallerAcked \/ SubsystemRefused)
    /\ ShutdownIsLast

\* C20 for a caller that still holds the receiver of its acknowledgement.
C20_ShutdownCompletesForWaitingCaller ==
    /\ ShutdownReceived ~> (CallerAcked \/ SubsystemRefused \/ CallerGone)
    /\ ShutdownIsLast

\* The caller was acknowledged and a command enqueued behind the Shutdown
\* is left in the channel.
C20_Witness ==
    /\ CallerAcked
    /\ ShutdownReceived
    /\ qs_rx # <<>>

\* The logical times of the commands sent on a channel, in the order sent.
TimesSent(channel) == [i \in 1..Len(sent[channel]) |-> sent[channel][i].time]

\* The commit notification in the coordinator's hands that the proof manager
\* has not been sent yet.
CommitInHand ==
    IF qs_cmd.type = "CommitNotification"
           /\ Len(sent["proof_manager"]) = Len(sent["batch_generator"])
    THEN <<qs_cmd>> ELSE <<>>

\* The commit notifications in the coordinator's channel, in their order.
CommitsQueued == SelectSeq(qs_rx, LAMBDA cmd : cmd.type = "CommitNotification")

\* The commit notifications in the order they were enqueued: those sent to
\* the proof manager, the one in hand, those in the channel.
CommitsInOrder == sent["proof_manager"] \o CommitInHand \o CommitsQueued

\* C21: every commit notification received before Shutdown is sent once to
\* the proof manager, with its time and digests, and then once to the batch
\* generator, with its time, in the order received; the batch generator is
\* never notified of a commit the proof manager has not been sent.
C21_CommitsForwardedInOrder ==
    /\ [](/\ Len(sent["batch_generator"]) <= Len(sent["proof_manager"])
          /\ Len(sent["proof_manager"]) <= Len(sent["batch_generator"]) + 1
          /\ TimesSent("batch_generator") =
                 SubSeq(TimesSent("proof_manager"), 1, Len(sent["batch_generator"]))
          /\ (qs_pc = "recv" \/ qs_cmd.type = "Shutdown") =>
                 /\ Len(sent["proof_manager"]) = Len(sent["batch_generator"])
                 /\ CommitInHand = <<>>)
    /\ [][\/ CommitsInOrder' = CommitsInOrder
          \/ \E time \in LogicalTimes, digests \in CommitDigestLists :
                CommitsInOrder' =
                    Append(CommitsInOrder, CommitNotification(time, digests))]_vars

\* Two commit notifications of different times have gone to both subsystems
\* and the coordinator waits for its next command.
C21_Witness ==
    /\ qs_pc = "recv"
    /\ Len(sent["batch_generator"]) = 2
    /\ Len(sent["proof_manager"]) = 2
    /\ sent["proof_manager"][1].time # sent["proof_manager"][2].time
    /\ sent["proof_manager"][1].digests # <<>>

\* C22: in every reachable state every digest with a proof state has a
\* recorded creation time, so the expect on the creation time made when a
\* proof is finalized never fails.
C22_StateHasCreationTime ==
    /\ DOMAIN digest_to_proof \subseteq DOMAIN digest_to_time
    /\ result.kind # "Panic"

\* A proof has been finalized after an expiry left the creation time of a
\* digest without a state.
C22_Witness ==
    /\ ReturnedProof(result)
    /\ timeout_batches_count >= 1
    /\ \E d \in Digests : d \in DOMAIN digest_to_time /\ ~HasState(d)

\* C23: when every contributor's signature on a digest is appended at most
\* once, at most one proof is emitted per digest, whatever states are
\* re-created after a finalization or an expiry.
C23_AtMostOneProofPerDigest == \A d \in Digests : broadcast[d] <= 1

\* The proof of a digest was emitted and a late signature has re-created a
\* state for it.
C23_Witness ==
    \E d \in Digests :
        /\ broadcast[d] = 1
        /\ HasState(d)
        /\ Cardinality({pair \in appended : pair[2] = d}) = NumValidators

\* What the multi-version view's get_value returns when the versioned map
\* answers NotFound.
GetValueOnNotFound(key, hint, base) ==
    GetValueMultiVersion(ReadIteration(<<>>, key, MVNotFound).returned[1],
                         key, hint, base)

\* C24: in the BTree view get_value returns the map's value for a key the
\* map holds, without asking the base view; for a key the map does not hold
\* it returns what the multi-version view returns on NotFound for the same
\* base view and hint; it never waits and captures no read.
C24_BTreeViewMatchesNotFoundPath ==
    [][\A key \in Keys, hint \in Hints :
          CallGetValueBTree(key, hint) =>
              /\ captured_reads' = captured_reads
              /\ wait_calls' = wait_calls
              /\ mvs_queries' = mvs_queries
              /\ view_pc' \in {"idle", "panicked"}
              /\ IF latest_view.map[key] # NoneOpt
                 THEN /\ get_value_result' = Some(Ok(latest_view.map[key][1].cached))
                      /\ base_view_reads' = <<>>
                 ELSE /\ get_value_result' =
                             Some(GetValueOnNotFound(key, hint, base_view).result)
                      /\ base_view_reads' =
                             GetValueOnNotFound(key, hint, base_view).base_view_reads]_vars

\* The BTree view answered a key its map does not hold from the bytes of the
\* base view, deserialized by the hint.
C24_Witness ==
    /\ latest_view.kind = "BTree"
    /\ latest_view.map[view_call.key] = NoneOpt
    /\ view_call.hint # NoneOpt
    /\ base_view_reads = <<view_call.key>>
    /\ get_value_result # NoneOpt
    /\ get_value_result[1].kind = "Ok"
    /\ get_value_result[1].value # NoneOpt
    /\ get_value_result[1].value[1].tag = "MoveValue"
    /\ captured_reads = <<>>

\* C25: when read returns Unresolved(delta) and the base view has no value
\* for the key, get_value returns the execution error STORAGE_ERROR, neither
\* None nor a value computed from a default base.
C25_UnresolvedOnMissIsStorageError ==
    (/\ GetValueReturned
     /\ read_result # NoneOpt
     /\ read_result[1].tag = "Unresolved"
     /\ StateValue = Ok(NoneOpt)) =>
        /\ get_value_result = Some(Err("STORAGE_ERROR"))
        /\ base_view_reads = <<view_call.key>>

\* The delta +1 met a key the base view does not hold and get_value returned
\* STORAGE_ERROR.
C25_Witness ==
    /\ latest_view.kind = "MultiVersion"
    /\ read_result # NoneOpt
    /\ read_result[1].tag = "Unresolved"
    /\ read_result[1].delta.update = "Plus"
    /\ StateValue = Ok(NoneOpt)
    /\ get_value_result = Some(Err("STORAGE_ERROR"))
    /\ view_pc = "idle"

====
